---- MODULE Spec2Model ----
(***************************************************************************)
(* Exchange relinking engine of the Excel-to-Brightway LCI importer        *)
(* (import_lci_bw2.py; import_lci_bw25.py carries the same logic).         *)
(*                                                                         *)
(* Python values are modelled as follows.                                  *)
(*   str        a sequence of one-character strings, <<"k","g">>           *)
(*   any value  a tagged record [t |-> type name, v |-> payload]           *)
(*   dict       a record holding every key the code reads; a key the dict  *)
(*              does not hold has the value Absent                         *)
(***************************************************************************)
EXTENDS Integers, Sequences, FiniteSets, TLC

VARIABLES
    ns,          \* SpecNorm: a string handed to _norm
    nt,          \* SpecNorm: a respelling of ns (case, outer whitespace, run length)
    cfg,         \* CFG: overwrite_metal_databases, allow_create_missing_biosphere_flows
    databases,   \* bd.databases: label -> the activities of the database, in iteration order
    folder,      \* the Excel files of the folder in sorted order, each a sequence of datasets
    mapping_file,\* the biosphere mapping fix file on disk
    name_map,    \* biosphere_name_map of run
    data,        \* importer.data of the file being processed
    pc,          \* the statement run or _process_excel is at
    file_no,     \* the number of files of this run that _process_excel was called for
    pos,         \* _fill_missing_biosphere_inputs: <<activity, exchange>> the loop is at
    exact_idx,   \* _fill_missing_biosphere_inputs: exact_idx
    name_idx,    \* _fill_missing_biosphere_inputs: name_idx
    fixed,       \* _fill_missing_biosphere_inputs: fixed
    err,         \* the exception that ended the run, NoError while none was raised
    snap,        \* history: databases when _process_excel was entered
    steps,       \* history: the steps of _process_excel done for the file
    trace,       \* history: what the biosphere loop did with each exchange of the file
    calls,       \* history: the _get_or_create_custom_biosphere_flow calls made
    builds,      \* history: index -> the number of times this run built it
    callers      \* SpecConcurrent: the _get_or_create_custom_biosphere_flow calls in progress

normVars == <<ns, nt>>
runVars == <<cfg, databases, folder, mapping_file, name_map, data, pc, file_no, pos,
             exact_idx, name_idx, fixed, err, snap, steps, trace, calls, builds, callers>>
vars == <<ns, nt, cfg, databases, folder, mapping_file, name_map, data, pc, file_no, pos,
          exact_idx, name_idx, fixed, err, snap, steps, trace, calls, builds, callers>>

-----------------------------------------------------------------------------
(* Strings                                                                 *)

\* Characters str.strip() and str.split() treat as whitespace (two of them).
Whitespace == {" ", "\t"}

IsSpace(c) == c \in Whitespace

\* The ASCII letters, upper case and lower case.
UpperLetters == <<"A", "B", "C", "D", "E", "F", "G", "H", "I", "J", "K", "L", "M",
                  "N", "O", "P", "Q", "R", "S", "T", "U", "V", "W", "X", "Y", "Z">>
LowerLetters == <<"a", "b", "c", "d", "e", "f", "g", "h", "i", "j", "k", "l", "m",
                  "n", "o", "p", "q", "r", "s", "t", "u", "v", "w", "x", "y", "z">>

\* str.lower() on one character.
LowerChar(c) ==
    IF \E i \in 1..Len(UpperLetters) : UpperLetters[i] = c
    THEN LowerLetters[CHOOSE i \in 1..Len(UpperLetters) : UpperLetters[i] = c]
    ELSE c

IsUpper(c) == LowerChar(c) # c

\* The other case of a letter, the character itself when it has none.
SwapCase(c) ==
    IF \E i \in 1..Len(LowerLetters) : LowerLetters[i] = c
    THEN UpperLetters[CHOOSE i \in 1..Len(LowerLetters) : LowerLetters[i] = c]
    ELSE LowerChar(c)

RECURSIVE LStrip(_)
LStrip(s) ==
    IF s = <<>> THEN <<>>
    ELSE IF IsSpace(Head(s)) THEN LStrip(Tail(s)) ELSE s

RECURSIVE RStrip(_)
RStrip(s) ==
    IF s = <<>> THEN <<>>
    ELSE IF IsSpace(s[Len(s)]) THEN RStrip(SubSeq(s, 1, Len(s) - 1)) ELSE s

\* str.strip()
Strip(s) == RStrip(LStrip(s))

\* str.lower()
LowerStr(s) == [i \in 1..Len(s) |-> LowerChar(s[i])]

\* str.split() without argument: the maximal runs of non-whitespace characters.
\* cur is the word being read, acc the words read so far.
RECURSIVE SplitFrom(_, _, _)
SplitFrom(s, cur, acc) ==
    IF s = <<>>
    THEN IF cur = <<>> THEN acc ELSE Append(acc, cur)
    ELSE IF IsSpace(Head(s))
         THEN SplitFrom(Tail(s), <<>>, IF cur = <<>> THEN acc ELSE Append(acc, cur))
         ELSE SplitFrom(Tail(s), Append(cur, Head(s)), acc)

Split(s) == SplitFrom(s, <<>>, <<>>)

\* sep.join(words)
RECURSIVE Join(_, _)
Join(sep, words) ==
    IF words = <<>> THEN <<>>
    ELSE IF Len(words) = 1 THEN words[1]
    ELSE words[1] \o sep \o Join(sep, Tail(words))

\* _norm as written without the lower() call.
NormKeepCase(s) == Join(<<" ">>, Split(Strip(s)))

\* _norm: " ".join(s.strip().lower().split())
Norm(s) == Join(<<" ">>, Split(LowerStr(Strip(s))))

-----------------------------------------------------------------------------
(* Python values                                                           *)

None_ == [t |-> "NoneType", v |-> <<>>]
Absent == [t |-> "absent", v |-> <<>>]
Str(s) == [t |-> "str", v |-> s]
Tup(xs) == [t |-> "tuple", v |-> xs]
List(xs) == [t |-> "list", v |-> xs]
PyInt(txt) == [t |-> "int", v |-> txt]
PyFloat(txt) == [t |-> "float", v |-> txt]
PyBool(txt) == [t |-> "bool", v |-> txt]

\* k in d
Has(x) == x.t # "absent"
\* d.get(k): None for a key the dict does not hold
Get(x) == IF x.t = "absent" THEN None_ ELSE x
\* isinstance(x, str)
IsStr(x) == x.t = "str"
\* isinstance(x, str) and x
IsNonEmptyStr(x) == x.t = "str" /\ x.v # <<>>
\* a == b for two values
PyEq(a, b) == a.t = b.t /\ a.v = b.v
\* str(x)
PyStr(x) ==
    CASE x.t = "str" -> x.v
      [] x.t = "NoneType" -> <<"N", "o", "n", "e">>
      [] OTHER -> x.v

\* The (database, code) tuple of two strings.
Key(db, code) == Tup(<<Str(db), Str(code)>>)

\* An activity or flow of a database, a dataset of the importer; every field
\* is a Python value but exchanges, a sequence of exchanges.
Activity(database, code, name, refprod, location, categories, unit, type, comment, exchanges) ==
    [database |-> database, code |-> code, name |-> name, refprod |-> refprod,
     location |-> location, categories |-> categories, unit |-> unit,
     type |-> type, comment |-> comment, exchanges |-> exchanges]

\* An exchange; isdict is FALSE for an entry of the exchange list that is no dict.
Exchange(type, amount, input, database, name, refprod, location, categories, unit, comment) ==
    [isdict |-> TRUE, type |-> type, amount |-> amount, input |-> input,
     database |-> database, name |-> name, refprod |-> refprod,
     location |-> location, categories |-> categories, unit |-> unit,
     comment |-> comment]

\* d[key] = val on a dict held as a function.
DictSet(d, key, val) ==
    [k \in DOMAIN d \cup {key} |-> IF k = key THEN val ELSE d[k]]

EmptyDict == [k \in {} |-> <<>>]

-----------------------------------------------------------------------------
(* Technosphere index                                                      *)

\* _build_ecoinvent_index: (name, reference product, location) -> (db, code),
\* a later activity with the same key replacing an earlier one.
RECURSIVE EcoinventIndexFrom(_, _, _)
EcoinventIndexFrom(db_name, acts, idx) ==
    IF acts = <<>> THEN idx
    ELSE LET act == Head(acts)
             name == Get(act.name)
             ref == Get(act.refprod)
             loc == Get(act.location)
             code == Get(act.code)
         IN IF IsNonEmptyStr(name) /\ IsNonEmptyStr(ref) /\ IsNonEmptyStr(loc) /\ IsNonEmptyStr(code)
            THEN EcoinventIndexFrom(db_name, Tail(acts),
                     DictSet(idx, <<name.v, ref.v, loc.v>>, <<db_name, code.v>>))
            ELSE EcoinventIndexFrom(db_name, Tail(acts), idx)

BuildEcoinventIndex(db_name, acts) == EcoinventIndexFrom(db_name, acts, EmptyDict)

-----------------------------------------------------------------------------
(* Biosphere indices                                                       *)

\* The normalized categories tuple of a flow or of an exchange.
CatsT(cats) ==
    IF cats.t \in {"list", "tuple"}
    THEN [i \in 1..Len(cats.v) |-> Norm(PyStr(cats.v[i]))]
    ELSE IF cats.t = "str" /\ cats.v # <<>> THEN <<Norm(cats.v)>>
    ELSE <<>>

\* A flow enters the indices only with a string name, a string unit and a
\* non-empty string code.
FlowIndexed(flow) ==
    IsStr(Get(flow.name)) /\ IsStr(Get(flow.unit)) /\ IsNonEmptyStr(Get(flow.code))

\* The exact-index key of a flow.
FlowKey(flow) == <<Norm(flow.name.v), CatsT(Get(flow.categories)), Norm(flow.unit.v)>>

\* _build_biosphere_exact_index with the categories left out of the key.
RECURSIVE BioExactIndexNoCatsFrom(_, _, _)
BioExactIndexNoCatsFrom(db_name, flows, idx) ==
    IF flows = <<>> THEN idx
    ELSE LET flow == Head(flows)
         IN IF ~FlowIndexed(flow)
            THEN BioExactIndexNoCatsFrom(db_name, Tail(flows), idx)
            ELSE BioExactIndexNoCatsFrom(db_name, Tail(flows),
                     DictSet(idx, <<Norm(flow.name.v), <<>>, Norm(flow.unit.v)>>,
                             <<db_name, flow.code.v>>))

BuildBiosphereExactIndexNoCats(db_name, flows) ==
    BioExactIndexNoCatsFrom(db_name, flows, EmptyDict)

\* _build_biosphere_exact_index: (norm name, norm categories, norm unit) ->
\* (db, code), a later flow with the same key replacing an earlier one.
RECURSIVE BioExactIndexFrom(_, _, _)
BioExactIndexFrom(db_name, flows, idx) ==
    IF flows = <<>> THEN idx
    ELSE LET flow == Head(flows)
         IN IF ~FlowIndexed(flow)
            THEN BioExactIndexFrom(db_name, Tail(flows), idx)
            ELSE BioExactIndexFrom(db_name, Tail(flows),
                     DictSet(idx, FlowKey(flow), <<db_name, flow.code.v>>))

BuildBiosphereExactIndex(db_name, flows) == BioExactIndexFrom(db_name, flows, EmptyDict)

\* name_idx of _fill_missing_biosphere_inputs: norm name -> the candidates
\* (db, code, norm categories, norm unit) in iteration order.
RECURSIVE BioNameIndexFrom(_, _, _)
BioNameIndexFrom(db_name, flows, idx) ==
    IF flows = <<>> THEN idx
    ELSE LET flow == Head(flows)
         IN IF ~FlowIndexed(flow)
            THEN BioNameIndexFrom(db_name, Tail(flows), idx)
            ELSE LET n == Norm(flow.name.v)
                     old == IF n \in DOMAIN idx THEN idx[n] ELSE <<>>
                     cand == <<db_name, flow.code.v, CatsT(Get(flow.categories)), Norm(flow.unit.v)>>
                 IN BioNameIndexFrom(db_name, Tail(flows), DictSet(idx, n, Append(old, cand)))

BuildBiosphereNameIndex(db_name, flows) == BioNameIndexFrom(db_name, flows, EmptyDict)

\* _BIO_NAME_ALIASES: the alias table, empty in both scripts.
BIO_NAME_ALIASES == EmptyDict

\* d.get(k, [])
GetList(d, k) == IF k \in DOMAIN d THEN d[k] ELSE <<>>

RECURSIVE AliasCandidates(_, _)
AliasCandidates(nidx, aliases) ==
    IF aliases = <<>> THEN <<>>
    ELSE GetList(nidx, Norm(Head(aliases))) \o AliasCandidates(nidx, Tail(aliases))

\* The de-duplication by (db, code), the first occurrence kept.
RECURSIVE DedupFrom(_, _, _)
DedupFrom(items, seen, uniq) ==
    IF items = <<>> THEN uniq
    ELSE LET item == Head(items)
             k == <<item[1], item[2]>>
         IN IF k \in seen
            THEN DedupFrom(Tail(items), seen, uniq)
            ELSE DedupFrom(Tail(items), seen \cup {k}, Append(uniq, item))

\* candidates_for_name
CandidatesForName(nidx, name) ==
    LET n0 == Norm(name)
        out == GetList(nidx, n0) \o AliasCandidates(nidx, GetList(BIO_NAME_ALIASES, n0))
    IN DedupFrom(out, {}, <<>>)

\* The absence of a chosen candidate (None).
NoHit == <<>>

\* choose_best_candidate taking the first candidate of an ambiguous list.
ChooseFirstCandidate(cands, unit_n, top_compartment) ==
    IF cands = <<>> THEN NoHit
    ELSE LET UnitOk(c) == c[4] = unit_n
             filtered == SelectSeq(cands, UnitOk)
             c_unit == IF filtered # <<>> THEN filtered ELSE cands
         IN <<c_unit[1][1], c_unit[1][2]>>

\* choose_best_candidate without the unit filter.
ChooseIgnoringUnit(cands, unit_n, top_compartment) ==
    IF cands = <<>> THEN NoHit
    ELSE LET tc == Norm(top_compartment.v)
             TopOk(c) == Len(c[3]) >= 1 /\ c[3][1] = tc
             c_tc == IF IsNonEmptyStr(top_compartment) THEN SelectSeq(cands, TopOk) ELSE <<>>
         IN IF IsNonEmptyStr(top_compartment) /\ Len(c_tc) = 1
            THEN <<c_tc[1][1], c_tc[1][2]>>
            ELSE IF IsNonEmptyStr(top_compartment) /\ Len(c_tc) > 1
            THEN NoHit
            ELSE IF Len(cands) = 1 THEN <<cands[1][1], cands[1][2]>>
            ELSE NoHit

\* choose_best_candidate: top_compartment is a normalized string or None_.
ChooseBestCandidate(cands, unit_n, top_compartment) ==
    IF cands = <<>> THEN NoHit
    ELSE LET UnitOk(c) == c[4] = unit_n
             filtered == SelectSeq(cands, UnitOk)
             c_unit == IF filtered # <<>> THEN filtered ELSE cands
             tc == Norm(top_compartment.v)
             TopOk(c) == Len(c[3]) >= 1 /\ c[3][1] = tc
             c_tc == IF IsNonEmptyStr(top_compartment) THEN SelectSeq(c_unit, TopOk) ELSE <<>>
         IN IF IsNonEmptyStr(top_compartment) /\ Len(c_tc) = 1
            THEN <<c_tc[1][1], c_tc[1][2]>>
            ELSE IF IsNonEmptyStr(top_compartment) /\ Len(c_tc) > 1
            THEN NoHit
            ELSE IF Len(c_unit) = 1 THEN <<c_unit[1][1], c_unit[1][2]>>
            ELSE NoHit

-----------------------------------------------------------------------------
(* Custom biosphere flows                                                  *)

\* repr of a str without quote or backslash in it
ReprStr(s) == <<"'">> \o s \o <<"'">>

RECURSIVE ReprItems(_)
ReprItems(t) ==
    IF t = <<>> THEN <<>>
    ELSE IF Len(t) = 1 THEN ReprStr(t[1])
    ELSE ReprStr(t[1]) \o <<",", " ">> \o ReprItems(Tail(t))

\* The text of a tuple of str in an f-string: (), ('air',), ('air', 'low')
ReprTuple(t) ==
    IF t = <<>> THEN <<"(", ")">>
    ELSE IF Len(t) = 1 THEN <<"(">> \o ReprStr(t[1]) \o <<",", ")">>
    ELSE <<"(">> \o ReprItems(t) \o <<")">>

\* hashlib.md5(key).hexdigest(), taken to be free of collisions: the digest
\* of a text is written as the text behind the mark "md5:".
Md5Hex(key) == <<"md5:">> \o key

\* _custom_flow_code: md5 of f"{name}|{categories}|{unit}"
CustomFlowCode(name, categories, unit) ==
    Md5Hex(name \o <<"|">> \o ReprTuple(categories) \o <<"|">> \o unit)

\* _ensure_custom_biosphere_db
EnsureCustomBiosphereDb(dbs, db_name) ==
    IF db_name \in DOMAIN dbs THEN dbs ELSE DictSet(dbs, db_name, <<>>)

\* key in db.load()
InDatabase(acts, code) == \E i \in 1..Len(acts) : PyEq(acts[i].code, Str(code))

StrTuple(t) == Tup([i \in 1..Len(t) |-> Str(t[i])])

\* _get_or_create_custom_biosphere_flow: the databases afterwards, the key
\* returned and whether the key was found.
GetOrCreateCustomBiosphereFlow(dbs, db_name, flow_name, categories, unit) ==
    LET ensured == EnsureCustomBiosphereDb(dbs, db_name)
        code == CustomFlowCode(flow_name, categories, unit)
        existing == ensured[db_name]
        flow == Activity(Str(db_name), Str(code), Str(flow_name), Absent, Absent,
                         StrTuple(categories), Str(unit), Str(<<"emission">>), Absent, <<>>)
    IN IF InDatabase(existing, code)
       THEN [dbs |-> ensured, key |-> <<db_name, code>>, found |-> TRUE]
       ELSE [dbs |-> [ensured EXCEPT ![db_name] = Append(existing, flow)],
             key |-> <<db_name, code>>, found |-> FALSE]

-----------------------------------------------------------------------------
(* Configuration                                                           *)

\* CFG.custom_biosphere_db_name
CUSTOM_DB == <<"biosphere_custom">>
\* the biosphere database the exchanges are linked to
BIOSPHERE_DB == <<"biosphere3">>
\* CFG.excel_background_db_name
EXCEL_BG == <<"ecoinvent", " ", "3.10", " ", "cutoff">>
\* the ecoinvent database _prepare_project found
ACTUAL_EI == <<"ecoinvent-3.10-cutoff">>

T_PRODUCTION == Str(<<"production">>)
T_TECHNOSPHERE == Str(<<"technosphere">>)
T_BIOSPHERE == Str(<<"biosphere">>)

-----------------------------------------------------------------------------
(* Excel importer utilities                                                *)

\* The index of the first "::" of a string, 0 when it has none.
RECURSIVE FindSep(_, _)
FindSep(s, i) ==
    IF i + 1 > Len(s) THEN 0
    ELSE IF s[i] = ":" /\ s[i + 1] = ":" THEN i ELSE FindSep(s, i + 1)

\* One exchange of _normalize_exchange_inputs_to_tuples.
NormalizeInput(exc) ==
    IF ~exc.isdict THEN exc
    ELSE LET inp == Get(exc.input)
             at == IF IsStr(inp) THEN FindSep(inp.v, 1) ELSE 0
         IN IF at > 0
            THEN [exc EXCEPT !.input = Key(SubSeq(inp.v, 1, at - 1),
                                            SubSeq(inp.v, at + 2, Len(inp.v)))]
            ELSE exc

IsTuple2(x) == x.t = "tuple" /\ Len(x.v) = 2

\* One exchange of _rewrite_background_db_label.
RewriteLabel(exc, old_bg, new_bg) ==
    IF ~exc.isdict \/ old_bg = new_bg THEN exc
    ELSE LET e1 == IF PyEq(Get(exc.database), Str(old_bg))
                   THEN [exc EXCEPT !.database = Str(new_bg)] ELSE exc
             inp == Get(e1.input)
         IN IF IsTuple2(inp) /\ PyEq(inp.v[1], Str(old_bg))
            THEN [e1 EXCEPT !.input = Tup(<<Str(new_bg), inp.v[2]>>)]
            ELSE e1

\* _normalize_exchange_inputs_to_tuples, then _rewrite_background_db_label, on
\* every exchange of every dataset.
NormalizeAndRewrite(d, old_bg, new_bg) ==
    [a \in 1..Len(d) |->
        [d[a] EXCEPT !.exchanges =
            [x \in 1..Len(d[a].exchanges) |->
                RewriteLabel(NormalizeInput(d[a].exchanges[x]), old_bg, new_bg)]]]

\* _databases_in_importer for a list of datasets
DatabasesInImporter(d) ==
    {d[a].database.v : a \in {i \in 1..Len(d) : IsNonEmptyStr(Get(d[i].database))}}

\* _sanitize_dataset_text_fields
NoneToEmpty(x) == IF x.t = "NoneType" THEN Str(<<>>) ELSE x

SanitizeDatasetTextFields(d) ==
    [a \in 1..Len(d) |->
        [d[a] EXCEPT !.comment = NoneToEmpty(d[a].comment),
                     !.exchanges = [x \in 1..Len(d[a].exchanges) |->
                         IF d[a].exchanges[x].isdict
                         THEN [d[a].exchanges[x] EXCEPT !.comment = NoneToEmpty(@)]
                         ELSE d[a].exchanges[x]]]]

-----------------------------------------------------------------------------
(* Technosphere relinking                                                  *)

\* The iteration without the test of availability: the activities are looked
\* up in the ecoinvent database whatever database the exchange names.
TechResolveDefaultDb(exc, dbs, indices) ==
    LET same == [exc |-> exc, indices |-> indices, n |-> 0]
        db_name == Get(exc.database)
        name == Get(exc.name)
        ref == Get(exc.refprod)
        loc == Get(exc.location)
    IN IF ~exc.isdict \/ ~PyEq(Get(exc.type), T_TECHNOSPHERE) \/ Has(exc.input) THEN same
       ELSE IF ~(IsNonEmptyStr(db_name) /\ IsNonEmptyStr(name) /\ IsNonEmptyStr(ref) /\ IsNonEmptyStr(loc))
       THEN same
       ELSE LET built == IF ACTUAL_EI \in DOMAIN indices THEN indices
                         ELSE DictSet(indices, ACTUAL_EI,
                                      BuildEcoinventIndex(ACTUAL_EI, dbs[ACTUAL_EI]))
                k == <<name.v, ref.v, loc.v>>
            IN IF k \in DOMAIN built[ACTUAL_EI]
               THEN [exc |-> [exc EXCEPT !.input = Key(built[ACTUAL_EI][k][1], built[ACTUAL_EI][k][2])],
                     indices |-> built, n |-> 1]
               ELSE [exc |-> exc, indices |-> built, n |-> 0]

\* One iteration of the loop of _fill_missing_technosphere_inputs: the
\* exchange and the index cache afterwards, and 1 when the input was filled.
TechResolve(exc, dbs, indices) ==
    LET same == [exc |-> exc, indices |-> indices, n |-> 0]
        db_name == Get(exc.database)
        name == Get(exc.name)
        ref == Get(exc.refprod)
        loc == Get(exc.location)
    IN IF ~exc.isdict \/ ~PyEq(Get(exc.type), T_TECHNOSPHERE) \/ Has(exc.input) THEN same
       ELSE IF ~(IsNonEmptyStr(db_name) /\ IsNonEmptyStr(name) /\ IsNonEmptyStr(ref) /\ IsNonEmptyStr(loc))
       THEN same
       ELSE IF db_name.v \notin DOMAIN dbs THEN same
       ELSE LET built == IF db_name.v \in DOMAIN indices THEN indices
                         ELSE DictSet(indices, db_name.v,
                                      BuildEcoinventIndex(db_name.v, dbs[db_name.v]))
                k == <<name.v, ref.v, loc.v>>
            IN IF k \in DOMAIN built[db_name.v]
               THEN [exc |-> [exc EXCEPT !.input = Key(built[db_name.v][k][1], built[db_name.v][k][2])],
                     indices |-> built, n |-> 1]
               ELSE [exc |-> exc, indices |-> built, n |-> 0]

\* The loop counting every exchange it visits, linked or not.
RECURSIVE FillTechFromCountVisited(_, _, _, _, _, _)
FillTechFromCountVisited(d, dbs, indices, n, a, x) ==
    IF a > Len(d) THEN [data |-> d, indices |-> indices, fixed |-> n]
    ELSE IF x > Len(d[a].exchanges) THEN FillTechFromCountVisited(d, dbs, indices, n, a + 1, 1)
    ELSE LET r == TechResolve(d[a].exchanges[x], dbs, indices)
         IN FillTechFromCountVisited([d EXCEPT ![a].exchanges[x] = r.exc], dbs, r.indices,
                                     n + 1, a, x + 1)

RECURSIVE FillTechFrom(_, _, _, _, _, _)
FillTechFrom(d, dbs, indices, n, a, x) ==
    IF a > Len(d) THEN [data |-> d, indices |-> indices, fixed |-> n]
    ELSE IF x > Len(d[a].exchanges) THEN FillTechFrom(d, dbs, indices, n, a + 1, 1)
    ELSE LET r == TechResolve(d[a].exchanges[x], dbs, indices)
         IN FillTechFrom([d EXCEPT ![a].exchanges[x] = r.exc], dbs, r.indices, n + r.n, a, x + 1)

\* _fill_missing_technosphere_inputs
FillMissingTechnosphereInputs(d, dbs) == FillTechFrom(d, dbs, EmptyDict, 0, 1, 1)

-----------------------------------------------------------------------------
(* Biosphere relinking                                                     *)

\* The loop body without stage B: the mapped name is looked up in the name
\* index alone.
BioLookupNoMapped(exc, eidx, nidx, nmap) ==
    LET Out(stage, hit) == [stage |-> stage, hit |-> hit]
        raw_name == Get(exc.name)
        cats == Get(exc.categories)
        unit == Get(exc.unit)
    IN IF ~exc.isdict \/ ~PyEq(Get(exc.type), T_BIOSPHERE) \/ Has(exc.input)
       THEN Out("skip", NoHit)
       ELSE IF ~(IsStr(raw_name) /\ IsStr(unit)) THEN Out("skip", NoHit)
       ELSE LET cats_t == CatsT(cats)
                top_comp == IF cats_t # <<>> THEN Str(cats_t[1]) ELSE None_
                unit_n == Norm(unit.v)
                name_n == Norm(raw_name.v)
                mapped_name == IF name_n \in DOMAIN nmap THEN nmap[name_n] ELSE raw_name.v
                chosen == ChooseBestCandidate(CandidatesForName(nidx, mapped_name), unit_n, top_comp)
            IN IF <<name_n, cats_t, unit_n>> \in DOMAIN eidx
               THEN Out("A", eidx[<<name_n, cats_t, unit_n>>])
               ELSE IF chosen # NoHit
               THEN Out("C", chosen)
               ELSE Out("none", NoHit)

\* The loop body of _fill_missing_biosphere_inputs up to stage C: the stage
\* that linked the exchange ("A", "B", "C") with the input found, "skip" for
\* an exchange the loop passes over, "none" when the three stages found nothing.
BioLookup(exc, eidx, nidx, nmap) ==
    LET Out(stage, hit) == [stage |-> stage, hit |-> hit]
        raw_name == Get(exc.name)
        cats == Get(exc.categories)
        unit == Get(exc.unit)
    IN IF ~exc.isdict \/ ~PyEq(Get(exc.type), T_BIOSPHERE) \/ Has(exc.input)
       THEN Out("skip", NoHit)
       ELSE IF ~(IsStr(raw_name) /\ IsStr(unit)) THEN Out("skip", NoHit)
       ELSE LET cats_t == CatsT(cats)
                top_comp == IF cats_t # <<>> THEN Str(cats_t[1]) ELSE None_
                unit_n == Norm(unit.v)
                name_n == Norm(raw_name.v)
                mapped_name == IF name_n \in DOMAIN nmap THEN nmap[name_n] ELSE raw_name.v
                mapped_n == Norm(mapped_name)
                chosen == ChooseBestCandidate(CandidatesForName(nidx, mapped_name), unit_n, top_comp)
            IN IF <<name_n, cats_t, unit_n>> \in DOMAIN eidx
               THEN Out("A", eidx[<<name_n, cats_t, unit_n>>])
               ELSE IF <<mapped_n, cats_t, unit_n>> \in DOMAIN eidx
               THEN Out("B", eidx[<<mapped_n, cats_t, unit_n>>])
               ELSE IF chosen # NoHit
               THEN Out("C", chosen)
               ELSE Out("none", NoHit)

\* The loop body passing over an exchange it cannot link instead of raising.
BioResolveNoRaise(exc, dbs, eidx, nidx, nmap, allow_create) ==
    LET found == BioLookup(exc, eidx, nidx, nmap)
    IN IF found.stage # "none"
       THEN [stage |-> found.stage, hit |-> found.hit, dbs |-> dbs]
       ELSE IF allow_create
       THEN LET r == GetOrCreateCustomBiosphereFlow(dbs, CUSTOM_DB, exc.name.v,
                         CatsT(Get(exc.categories)), Norm(exc.unit.v))
            IN [stage |-> "D", hit |-> r.key, dbs |-> r.dbs]
       ELSE [stage |-> "skip", hit |-> NoHit, dbs |-> dbs]

\* One iteration of the loop of _fill_missing_biosphere_inputs on an exchange:
\* the stage that ended it ("skip", "A", "B", "C", "D", or "E" for the raise),
\* the input found, and the databases afterwards.
BioResolve(exc, dbs, eidx, nidx, nmap, allow_create) ==
    LET found == BioLookup(exc, eidx, nidx, nmap)
    IN IF found.stage # "none"
       THEN [stage |-> found.stage, hit |-> found.hit, dbs |-> dbs]
       ELSE IF allow_create
       THEN LET r == GetOrCreateCustomBiosphereFlow(dbs, CUSTOM_DB, exc.name.v,
                         CatsT(Get(exc.categories)), Norm(exc.unit.v))
            IN [stage |-> "D", hit |-> r.key, dbs |-> r.dbs]
       ELSE [stage |-> "E", hit |-> NoHit, dbs |-> dbs]

\* The first <<activity, exchange>> at or after <<a, x>>, <<0, 0>> past the end.
RECURSIVE PosFrom(_, _, _)
PosFrom(d, a, x) ==
    IF a > Len(d) THEN <<0, 0>>
    ELSE IF x > Len(d[a].exchanges) THEN PosFrom(d, a + 1, 1)
    ELSE <<a, x>>

\* bd.Database(name): no activity for a label that is not registered
ActivitiesOf(dbs, name) == IF name \in DOMAIN dbs THEN dbs[name] ELSE <<>>

\* The loop of _fill_missing_biosphere_inputs from <<a, x>> on: the file and
\* the databases when it ends, the count, and whether it ended by the raise.
RECURSIVE FillBioFrom(_, _, _, _, _, _, _, _, _)
FillBioFrom(d, dbs, eidx, nidx, nmap, allow_create, n, a, x) ==
    IF a > Len(d) THEN [data |-> d, dbs |-> dbs, fixed |-> n, raised |-> FALSE]
    ELSE IF x > Len(d[a].exchanges)
    THEN FillBioFrom(d, dbs, eidx, nidx, nmap, allow_create, n, a + 1, 1)
    ELSE LET r == BioResolve(d[a].exchanges[x], dbs, eidx, nidx, nmap, allow_create)
         IN IF r.stage = "E" THEN [data |-> d, dbs |-> dbs, fixed |-> n, raised |-> TRUE]
            ELSE IF r.stage = "skip"
            THEN FillBioFrom(d, dbs, eidx, nidx, nmap, allow_create, n, a, x + 1)
            ELSE FillBioFrom([d EXCEPT ![a].exchanges[x].input = Key(r.hit[1], r.hit[2])],
                             r.dbs, eidx, nidx, nmap, allow_create, n + 1, a, x + 1)

\* _fill_missing_biosphere_inputs(importer, "biosphere3", name_map)
FillMissingBiosphereInputs(d, dbs, nmap, allow_create) ==
    FillBioFrom(d, dbs,
                BuildBiosphereExactIndex(BIOSPHERE_DB, ActivitiesOf(dbs, BIOSPHERE_DB)),
                BuildBiosphereNameIndex(BIOSPHERE_DB, ActivitiesOf(dbs, BIOSPHERE_DB)),
                nmap, allow_create, 0, 1, 1)

-----------------------------------------------------------------------------
(* Validation                                                              *)

\* _is_number: isinstance(x, (int, float)) and not (x != x); bool is a
\* subclass of int, and only NaN differs from itself.
IsNumber(x) ==
    /\ x.t \in {"int", "float", "bool"}
    /\ ~(x.t = "float" /\ x.v = <<"nan">>)

ValidInput(inp) ==
    /\ IsTuple2(inp)
    /\ \A i \in 1..2 : IsNonEmptyStr(inp.v[i])

\* The production check of _validate_importer_payload: made only for a
\* dataset whose database and code are non-empty strings.
ProductionMismatch(act, exc) ==
    LET adb == Get(act.database)
        acode == Get(act.code)
    IN /\ PyEq(exc.type, T_PRODUCTION)
       /\ IsNonEmptyStr(adb) /\ IsNonEmptyStr(acode)
       /\ ~(PyEq(exc.input.v[1], adb) /\ PyEq(exc.input.v[2], acode))

\* The checks of _validate_importer_payload on one exchange, in order: the
\* error raised, "ok" when none is.
ValidateExchange(act, exc) ==
    IF ~exc.isdict THEN "InvalidInputShape"
    ELSE IF ~Has(exc.type) \/ ~Has(exc.amount) \/ ~Has(exc.input) THEN "MissingField"
    ELSE IF ~(PyEq(exc.type, T_PRODUCTION) \/ PyEq(exc.type, T_TECHNOSPHERE)
              \/ PyEq(exc.type, T_BIOSPHERE)) THEN "InvalidType"
    ELSE IF ~IsNumber(exc.amount) THEN "NonNumericAmount"
    ELSE IF ~ValidInput(exc.input) THEN "InvalidInputFormat"
    ELSE IF ProductionMismatch(act, exc) THEN "ProductionSelfReference"
    ELSE "ok"

NoError == [kind |-> "none", at |-> <<0, 0>>]

\* _validate_importer_payload: the first error in iteration order.
RECURSIVE ValidateFrom(_, _, _)
ValidateFrom(d, a, x) ==
    IF a > Len(d) THEN NoError
    ELSE IF x > Len(d[a].exchanges) THEN ValidateFrom(d, a + 1, 1)
    ELSE LET v == ValidateExchange(d[a], d[a].exchanges[x])
         IN IF v # "ok" THEN [kind |-> v, at |-> <<a, x>>]
            ELSE ValidateFrom(d, a, x + 1)

ValidateImporterPayload(d) == ValidateFrom(d, 1, 1)

-----------------------------------------------------------------------------
(* The mapping fix file                                                    *)

COL_ERROR == <<"e", "r", "r", "o", "r">>
COL_TO_REPLACE == <<"t", "o", " ", "r", "e", "p", "l", "a", "c", "e">>

\* cols = {c.strip().lower(): c for c in df.columns}, the column held by its index
RECURSIVE ColumnsFrom(_, _, _)
ColumnsFrom(columns, i, cols) ==
    IF i > Len(columns) THEN cols
    ELSE ColumnsFrom(columns, i + 1, DictSet(cols, LowerStr(Strip(columns[i])), i))

\* The rows of load_biosphere_mapping_fix folded into the mapping.
RECURSIVE MappingFrom(_, _, _, _)
MappingFrom(rows, ce, ct, out) ==
    IF rows = <<>> THEN out
    ELSE LET src == Head(rows)[ce]
             dst == Head(rows)[ct]
         IN IF ~IsStr(src) \/ Strip(src.v) = <<>> \/ ~IsStr(dst) \/ Strip(dst.v) = <<>>
            THEN MappingFrom(Tail(rows), ce, ct, out)
            ELSE MappingFrom(Tail(rows), ce, ct, DictSet(out, Norm(src.v), Strip(dst.v)))

\* load_biosphere_mapping_fix giving an empty mapping for a file it cannot use.
LoadMappingFixLenient(file) ==
    IF ~file.exists THEN [err |-> "none", map |-> EmptyDict]
    ELSE LET cols == ColumnsFrom(file.columns, 1, EmptyDict)
         IN IF COL_ERROR \notin DOMAIN cols \/ COL_TO_REPLACE \notin DOMAIN cols
            THEN [err |-> "none", map |-> EmptyDict]
            ELSE [err |-> "none",
                  map |-> MappingFrom(file.rows, cols[COL_ERROR], cols[COL_TO_REPLACE], EmptyDict)]

\* load_biosphere_mapping_fix: the mapping, or the error raised.
LoadBiosphereMappingFix(file) ==
    IF ~file.exists THEN [err |-> "MappingFileNotFound", map |-> EmptyDict]
    ELSE LET cols == ColumnsFrom(file.columns, 1, EmptyDict)
         IN IF COL_ERROR \notin DOMAIN cols \/ COL_TO_REPLACE \notin DOMAIN cols
            THEN [err |-> "MappingFileFormat", map |-> EmptyDict]
            ELSE [err |-> "none",
                  map |-> MappingFrom(file.rows, cols[COL_ERROR], cols[COL_TO_REPLACE], EmptyDict)]

-----------------------------------------------------------------------------
(* Inputs                                                                  *)

KG == <<"k", "g">>
M3 == <<"m", "3">>
AIR == <<"a", "i", "r">>
WATER == <<"w", "a", "t", "e", "r">>
SOIL == <<"s", "o", "i", "l">>
LOW == <<"l", "o", "w">>
GLO == <<"G", "L", "O">>
M1 == <<"m1">>
P1 == <<"p1">>
P2 == <<"p2">>
ONE == PyInt(<<"1">>)

\* A flow of the biosphere database.
Flow(name, cats, unit, code) ==
    Activity(Str(BIOSPHERE_DB), Str(code), Str(name), Absent, Absent,
             StrTuple(cats), Str(unit), Str(<<"emission">>), Absent, <<>>)

\* F1 and F2 have the same normalized (name, categories, unit); F3 differs
\* from F1 in the compartment, F4 in the unit and the sub-compartment.
FlowPool == <<
    Flow(<<"C", "o">>, <<AIR>>, KG, <<"c1">>),
    Flow(<<"c", "o", " ">>, <<AIR>>, KG, <<"c2">>),
    Flow(<<"C", "o">>, <<WATER>>, KG, <<"c3">>),
    Flow(<<"C", "o">>, <<AIR, LOW>>, M3, <<"c4">>) >>

\* An activity of the ecoinvent database.
Process(name, refprod, location, code) ==
    Activity(Str(ACTUAL_EI), Str(code), Str(name), Str(refprod), Str(location),
             Absent, Str(KG), Str(<<"process">>), Absent, <<>>)

\* Two activities with the same (name, reference product, location).
ProcessPool == <<
    Process(<<"s", "t">>, <<"s", "t">>, GLO, <<"e1">>),
    Process(<<"s", "t">>, <<"s", "t">>, GLO, <<"e2">>) >>

BioExchange(name, cats, unit) ==
    Exchange(T_BIOSPHERE, ONE, Absent, Absent, name, Absent, Absent, cats, unit, Absent)

LinkedBioExchange(amount) ==
    Exchange(T_BIOSPHERE, amount, Key(BIOSPHERE_DB, <<"c1">>), Absent,
             Str(<<"C", "o">>), Absent, Absent, StrTuple(<<AIR>>), Str(KG), Absent)

ProductionExchange(code) ==
    Exchange(T_PRODUCTION, ONE, Key(M1, code), Absent, Str(<<"m">>), Absent, Absent,
             Absent, Str(KG), None_)

TechExchange(database) ==
    Exchange(T_TECHNOSPHERE, ONE, Absent, Str(database), Str(<<"s", "t">>),
             Str(<<"s", "t">>), Str(GLO), Absent, Str(KG), Absent)

\* Exchanges for the resolvers: biosphere exchanges without input that end at
\* each stage, and technosphere exchanges without input, the last of them with
\* the name of the activities in another spelling.
ResolvePool == <<
    BioExchange(Str(<<"C", "o">>), StrTuple(<<AIR>>), Str(KG)),
    BioExchange(Str(<<" ", "C", "O">>), None_, Str(KG)),
    BioExchange(Str(<<"C", "x">>), List(<<Str(AIR)>>), Str(<<"K", "g">>)),
    BioExchange(Str(<<"X", "a">>), StrTuple(<<SOIL>>), Str(KG)),
    BioExchange(Str(<<"x", "a">>), StrTuple(<<SOIL>>), Str(KG)),
    BioExchange(Str(<<"C", "o">>), Str(SOIL), Str(KG)),
    BioExchange(Str(<<"C", "o">>), StrTuple(<<WATER>>), Str(M3)),
    BioExchange(None_, StrTuple(<<AIR>>), Str(KG)),
    TechExchange(EXCEL_BG),
    TechExchange(<<"other">>),
    BioExchange(Str(<<"C", "o">>), StrTuple(<<AIR, LOW>>), Str(KG)),
    [TechExchange(EXCEL_BG) EXCEPT !.name = Str(<<"S", "t", " ">>)] >>

\* Exchanges for the whole of _process_excel: some of the above, and exchanges
\* the Validator has to judge.
FilePool == <<
    ProductionExchange(P1),
    ProductionExchange(P2),
    TechExchange(EXCEL_BG),
    TechExchange(<<"other">>),
    BioExchange(Str(<<"C", "o">>), StrTuple(<<AIR>>), Str(KG)),
    BioExchange(Str(<<"X", "a">>), StrTuple(<<SOIL>>), Str(KG)),
    LinkedBioExchange(PyFloat(<<"nan">>)),
    LinkedBioExchange(PyFloat(<<"inf">>)),
    LinkedBioExchange(PyFloat(<<"-inf">>)),
    LinkedBioExchange(PyBool(<<"True">>)),
    LinkedBioExchange(Str(<<"1">>)),
    [LinkedBioExchange(ONE) EXCEPT !.input = Str(<<"biosphere3", ":", ":", "c1">>)],
    [LinkedBioExchange(ONE) EXCEPT !.type = Str(<<"waste">>)],
    [LinkedBioExchange(ONE) EXCEPT !.isdict = FALSE] >>

\* A dataset of database m1 with the given code and exchanges.
Dataset(code, exchanges) ==
    Activity(Str(M1), code, Str(<<"m">>), Str(<<"m">>), Str(GLO), Absent, Str(KG),
             Str(<<"process">>), None_, exchanges)

\* The sequences over 1..n of length 1..k.
RECURSIVE SeqsUpTo(_, _)
SeqsUpTo(n, k) ==
    IF k = 0 THEN {<<>>}
    ELSE LET shorter == SeqsUpTo(n, k - 1)
         IN shorter \cup {Append(q, i) : q \in {x \in shorter : Len(x) = k - 1}, i \in 1..n}

NoRepeat(q) == \A i, j \in 1..Len(q) : i # j => q[i] # q[j]

Pick(pool, q) == [i \in 1..Len(q) |-> pool[q[i]]]

MaxExchanges == 2
MaxFlows == 3
MaxCalls == 3
MaxFiles == 2

\* The mapping fix file: absent, without the "To replace" column, and with
\* both columns, a row mapping "cx" to "Co" among rows that are skipped.
MappingFiles == <<
    [exists |-> FALSE, columns |-> <<>>, rows |-> <<>>],
    [exists |-> TRUE, columns |-> <<<<"E", "r", "r", "o", "r">>, <<"t", "o">>>>, rows |-> <<>>],
    [exists |-> TRUE,
     columns |-> <<<<" ", "E", "r", "r", "o", "r">>,
                   <<"T", "o", " ", "r", "e", "p", "l", "a", "c", "e", " ">>>>,
     rows |-> << <<Str(<<"C", "x", " ">>), Str(<<" ", "C", "o">>)>>,
                 <<PyFloat(<<"nan">>), Str(<<"C", "o">>)>>,
                 <<Str(<<"x">>), Str(<<" ">>)>> >>] >>

-----------------------------------------------------------------------------
(* run and _process_excel                                                  *)

\* Values of the variables of SpecNorm, which run does not touch.
NormIdle == ns = <<>> /\ nt = <<>>

\* The build counts after one more build of each index of keys.
CountBuilds(b, keys) ==
    [k \in DOMAIN b \cup keys |->
        (IF k \in DOMAIN b THEN b[k] ELSE 0) + (IF k \in keys THEN 1 ELSE 0)]

\* run: load_biosphere_mapping_fix, before the first file.
LoadMapping ==
    /\ pc = "load_mapping"
    /\ LET r == LoadBiosphereMappingFix(mapping_file)
       IN IF r.err = "none"
          THEN /\ name_map' = r.map
               /\ pc' = "next_file"
               /\ err' = err
          ELSE /\ name_map' = name_map
               /\ pc' = "raised"
               /\ err' = [kind |-> r.err, at |-> <<0, 0>>]
    /\ UNCHANGED <<callers, builds, ns, nt, cfg, databases, folder, mapping_file, data, file_no, pos,
                   exact_idx, name_idx, fixed, snap, steps, trace, calls>>

\* _process_excel up to the technosphere lookup: the importer reads the file,
\* "db::code" inputs become tuples, the background label is rewritten.
ProcessExcelBegin ==
    /\ pc = "next_file"
    /\ file_no < Len(folder)
    /\ file_no' = file_no + 1
    /\ data' = NormalizeAndRewrite(folder[file_no + 1], EXCEL_BG, ACTUAL_EI)
    /\ snap' = databases
    /\ steps' = <<>>
    /\ trace' = <<>>
    /\ pc' = "tech"
    /\ UNCHANGED <<callers, builds, ns, nt, cfg, databases, folder, mapping_file, name_map, pos,
                   exact_idx, name_idx, fixed, err, calls>>

\* _process_excel: _fill_missing_technosphere_inputs
FillTech ==
    /\ pc = "tech"
    /\ LET r == FillMissingTechnosphereInputs(data, databases)
       IN /\ data' = r.data
          /\ fixed' = r.fixed
          /\ builds' = CountBuilds(builds, {<<"process", db>> : db \in DOMAIN r.indices})
    /\ steps' = Append(steps, "tech")
    /\ pc' = "bio"
    /\ UNCHANGED <<callers, ns, nt, cfg, databases, folder, mapping_file, name_map, file_no, pos,
                   exact_idx, name_idx, err, snap, trace, calls>>

\* _fill_missing_biosphere_inputs up to its loop: the two indices are built.
FillBioBegin ==
    /\ pc = "bio"
    /\ exact_idx' = BuildBiosphereExactIndex(BIOSPHERE_DB, ActivitiesOf(databases, BIOSPHERE_DB))
    /\ name_idx' = BuildBiosphereNameIndex(BIOSPHERE_DB, ActivitiesOf(databases, BIOSPHERE_DB))
    /\ builds' = CountBuilds(builds, {<<"exact", BIOSPHERE_DB>>, <<"name", BIOSPHERE_DB>>})
    /\ fixed' = 0
    /\ pos' = PosFrom(data, 1, 1)
    /\ pc' = "bio_loop"
    /\ UNCHANGED <<callers, ns, nt, cfg, databases, folder, mapping_file, name_map, data, file_no,
                   err, snap, steps, trace, calls>>

\* One iteration of the loop of _fill_missing_biosphere_inputs.
FillBioStep ==
    /\ pc = "bio_loop"
    /\ pos # <<0, 0>>
    /\ LET exc == data[pos[1]].exchanges[pos[2]]
           r == BioResolve(exc, databases, exact_idx, name_idx, name_map,
                           cfg.allow_create_missing_biosphere_flows)
           linked == r.stage \in {"A", "B", "C", "D"}
       IN /\ data' = IF linked
                     THEN [data EXCEPT ![pos[1]].exchanges[pos[2]].input = Key(r.hit[1], r.hit[2])]
                     ELSE data
          /\ fixed' = IF linked THEN fixed + 1 ELSE fixed
          /\ databases' = r.dbs
          /\ trace' = Append(trace, [at |-> pos, stage |-> r.stage, hit |-> r.hit])
          /\ IF r.stage = "E"
             THEN /\ pc' = "raised"
                  /\ err' = [kind |-> "UnresolvedReference", at |-> pos]
                  /\ pos' = pos
             ELSE /\ pc' = pc
                  /\ err' = err
                  /\ pos' = PosFrom(data, pos[1], pos[2] + 1)
    /\ UNCHANGED <<callers, builds, ns, nt, cfg, folder, mapping_file, name_map, file_no,
                   exact_idx, name_idx, snap, steps, calls>>

\* _fill_missing_biosphere_inputs returns.
FillBioReturn ==
    /\ pc = "bio_loop"
    /\ pos = <<0, 0>>
    /\ steps' = Append(steps, "bio")
    /\ pc' = "overwrite"
    /\ UNCHANGED <<callers, builds, ns, nt, cfg, databases, folder, mapping_file, name_map, data, file_no, pos,
                   exact_idx, name_idx, fixed, err, snap, trace, calls>>

\* del bd.databases[db_name] for every label of the set
DeleteDatabases(dbs, labels) == [k \in DOMAIN dbs \ labels |-> dbs[k]]

\* _process_excel: _sanitize_dataset_text_fields, then the existing databases
\* the file names are deleted when overwrite_metal_databases is set.
SanitizeAndOverwrite ==
    /\ pc = "overwrite"
    /\ data' = SanitizeDatasetTextFields(data)
    /\ databases' = IF cfg.overwrite_metal_databases
                    THEN DeleteDatabases(databases, DatabasesInImporter(data))
                    ELSE databases
    /\ steps' = Append(steps, "overwrite")
    /\ pc' = "validate"
    /\ UNCHANGED <<callers, builds, ns, nt, cfg, folder, mapping_file, name_map, file_no, pos,
                   exact_idx, name_idx, fixed, err, snap, trace, calls>>

\* _process_excel going on to the write whatever the Validator found.
ValidateNoAbort ==
    /\ pc = "validate"
    /\ pc' = "write"
    /\ err' = ValidateImporterPayload(data)
    /\ steps' = Append(steps, "validate")
    /\ UNCHANGED <<callers, builds, ns, nt, cfg, databases, folder, mapping_file, name_map, data,
                   file_no, pos, exact_idx, name_idx, fixed, snap, trace, calls>>

\* _process_excel: _validate_importer_payload
Validate ==
    /\ pc = "validate"
    /\ LET r == ValidateImporterPayload(data)
       IN IF r.kind = "none"
          THEN pc' = "write" /\ err' = err
          ELSE pc' = "raised" /\ err' = r
    /\ steps' = Append(steps, "validate")
    /\ UNCHANGED <<callers, builds, ns, nt, cfg, databases, folder, mapping_file, name_map, data, file_no, pos,
                   exact_idx, name_idx, fixed, snap, trace, calls>>

\* The datasets of d whose database is label, in order.
DatasetsOf(d, label) ==
    LET Mine(act) == PyEq(Get(act.database), Str(label))
    IN SelectSeq(d, Mine)

\* importer.write_database(): every database the file names is written with
\* the file's datasets of that database.
WrittenDatabases(dbs, d) ==
    [k \in DOMAIN dbs \cup DatabasesInImporter(d) |->
        IF k \in DatabasesInImporter(d) THEN DatasetsOf(d, k) ELSE dbs[k]]

\* _process_excel: importer.write_database()
WriteDatabase ==
    /\ pc = "write"
    /\ databases' = WrittenDatabases(databases, data)
    /\ steps' = Append(steps, "write")
    /\ pc' = "next_file"
    /\ UNCHANGED <<callers, builds, ns, nt, cfg, folder, mapping_file, name_map, data, file_no, pos,
                   exact_idx, name_idx, fixed, err, snap, trace, calls>>

\* run: every file of the folder was processed.
RunEnd ==
    /\ pc = "next_file"
    /\ file_no = Len(folder)
    /\ pc' = "done"
    /\ UNCHANGED <<callers, builds, ns, nt, cfg, databases, folder, mapping_file, name_map, data, file_no, pos,
                   exact_idx, name_idx, fixed, err, snap, steps, trace, calls>>

\* The files of one dataset of m1, with or without a code, and 1..MaxExchanges
\* exchanges of the pool.
FilesOver(pool, codes) ==
    {<<Dataset(codes[c], Pick(pool, q))>> :
        c \in 1..Len(codes), q \in SeqsUpTo(Len(pool), MaxExchanges) \ {<<>>}}

DatasetCodes == <<Str(P1), None_>>

\* Files for the folders of more than one file.
ShortFiles == <<
    <<Dataset(Str(P1), <<ProductionExchange(P1)>>)>>,
    <<Dataset(Str(P1), <<ProductionExchange(P2)>>)>>,
    <<Dataset(Str(P1), <<FilePool[6]>>)>>,
    <<Dataset(Str(P1), <<ProductionExchange(P1), FilePool[6]>>)>> >>

\* The folders: one file of FilesOver, or 2..MaxFiles files of ShortFiles.
Folders ==
    {<<f>> : f \in FilesOver(FilePool, DatasetCodes)}
    \cup {Pick(ShortFiles, q) : q \in {x \in SeqsUpTo(Len(ShortFiles), MaxFiles) : Len(x) >= 2}}

\* The databases of the project when run starts: the biosphere, the empty
\* custom biosphere, the ecoinvent database.
BaseDatabases(flows, procs) ==
    [k \in {BIOSPHERE_DB, CUSTOM_DB, ACTUAL_EI} |->
        IF k = BIOSPHERE_DB THEN flows
        ELSE IF k = ACTUAL_EI THEN procs ELSE <<>>]

\* The contents of database m1 left by an earlier run.
EarlierM1 == <<Dataset(Str(P1), <<ProductionExchange(P1)>>)>>

Init ==
    /\ NormIdle
    /\ cfg \in [overwrite_metal_databases : BOOLEAN,
                allow_create_missing_biosphere_flows : BOOLEAN]
    /\ \E earlier \in BOOLEAN :
          databases = IF earlier
                      THEN DictSet(BaseDatabases(<<FlowPool[1], FlowPool[3]>>, <<ProcessPool[1]>>),
                                   M1, EarlierM1)
                      ELSE BaseDatabases(<<FlowPool[1], FlowPool[3]>>, <<ProcessPool[1]>>)
    /\ \E m \in 1..Len(MappingFiles) : mapping_file = MappingFiles[m]
    /\ folder \in Folders
    /\ name_map = EmptyDict
    /\ data = <<>>
    /\ pc = "load_mapping"
    /\ file_no = 0
    /\ pos = <<0, 0>>
    /\ exact_idx = EmptyDict
    /\ name_idx = EmptyDict
    /\ fixed = 0
    /\ err = NoError
    /\ snap = databases
    /\ steps = <<>>
    /\ trace = <<>>
    /\ calls = <<>>
    /\ builds = EmptyDict
    /\ callers = <<>>

Next ==
    \/ LoadMapping
    \/ ProcessExcelBegin
    \/ FillTech
    \/ FillBioBegin
    \/ FillBioStep
    \/ FillBioReturn
    \/ SanitizeAndOverwrite
    \/ Validate
    \/ WriteDatabase
    \/ RunEnd

Spec == Init /\ [][Next]_vars

-----------------------------------------------------------------------------
(* SpecResolve: the two resolvers on one file, over biosphere databases of *)
(* every order and content                                                 *)

\* The biosphere databases: up to MaxFlows flows of the pool in any order.
FlowCollections ==
    {Pick(FlowPool, q) : q \in {x \in SeqsUpTo(Len(FlowPool), MaxFlows) : NoRepeat(x)}}

\* The ecoinvent databases: both activities, in either order.
ProcessCollections == {Pick(ProcessPool, q) : q \in {<<1, 2>>, <<2, 1>>}}

ResolveInit ==
    /\ NormIdle
    /\ cfg \in [overwrite_metal_databases : {TRUE},
                allow_create_missing_biosphere_flows : BOOLEAN]
    /\ \E flows \in FlowCollections, procs \in ProcessCollections :
          databases = BaseDatabases(flows, procs)
    /\ mapping_file = MappingFiles[3]
    /\ name_map = LoadBiosphereMappingFix(mapping_file).map
    /\ \E f \in FilesOver(ResolvePool, <<Str(P1)>>) : folder = <<f>>
    /\ data = NormalizeAndRewrite(folder[1], EXCEL_BG, ACTUAL_EI)
    /\ pc = "tech"
    /\ file_no = 1
    /\ pos = <<0, 0>>
    /\ exact_idx = EmptyDict
    /\ name_idx = EmptyDict
    /\ fixed = 0
    /\ err = NoError
    /\ snap = databases
    /\ steps = <<>>
    /\ trace = <<>>
    /\ calls = <<>>
    /\ builds = EmptyDict
    /\ callers = <<>>

ResolveNext == FillTech \/ FillBioBegin \/ FillBioStep \/ FillBioReturn

SpecResolve == ResolveInit /\ [][ResolveNext]_vars

-----------------------------------------------------------------------------
(* SpecStore: _get_or_create_custom_biosphere_flow called in sequence      *)

\* Names, categories and units of the flows asked for.
StoreNames == {<<"a">>, <<"a", "|", "(", ")">>, <<"A">>}
StoreCategories == {<<>>, <<AIR>>}
StoreUnits == {KG, <<"(", ")", "|", "k", "g">>}

StoreInit ==
    /\ NormIdle
    /\ cfg = [overwrite_metal_databases |-> TRUE, allow_create_missing_biosphere_flows |-> TRUE]
    /\ databases \in {BaseDatabases(<<>>, <<>>),
                      [k \in {BIOSPHERE_DB} |-> <<>>]}
    /\ folder = <<>>
    /\ mapping_file = MappingFiles[1]
    /\ name_map = EmptyDict
    /\ data = <<>>
    /\ pc = "store"
    /\ file_no = 0
    /\ pos = <<0, 0>>
    /\ exact_idx = EmptyDict
    /\ name_idx = EmptyDict
    /\ fixed = 0
    /\ err = NoError
    /\ snap = databases
    /\ steps = <<>>
    /\ trace = <<>>
    /\ calls = <<>>
    /\ builds = EmptyDict
    /\ callers = <<>>

\* One call of _get_or_create_custom_biosphere_flow.
GetOrCreateCall ==
    /\ pc = "store"
    /\ Len(calls) < MaxCalls
    /\ \E name \in StoreNames, cats \in StoreCategories, unit \in StoreUnits :
          LET r == GetOrCreateCustomBiosphereFlow(databases, CUSTOM_DB, name, cats, unit)
          IN /\ databases' = r.dbs
             /\ calls' = Append(calls, [triple |-> <<name, cats, unit>>, key |-> r.key,
                                        before |-> ActivitiesOf(databases, CUSTOM_DB),
                                        after |-> r.dbs[CUSTOM_DB]])
    /\ UNCHANGED <<callers, builds, ns, nt, cfg, folder, mapping_file, name_map, data, pc, file_no, pos,
                   exact_idx, name_idx, fixed, err, snap, steps, trace>>

SpecStore == StoreInit /\ [][GetOrCreateCall]_vars

-----------------------------------------------------------------------------
(* Properties of run and _process_excel (Spec)                             *)

Range(q) == {q[i] : i \in 1..Len(q)}

\* The positions <<activity, exchange>> of the file being processed.
Positions(d) == UNION {{<<a, x>> : x \in 1..Len(d[a].exchanges)} : a \in 1..Len(d)}

ExchangeAt(d, p) == d[p[1]].exchanges[p[2]]

\* The errors _validate_importer_payload raises.
ValidatorErrors == {"InvalidInputShape", "MissingField", "InvalidType", "NonNumericAmount",
                    "InvalidInputFormat", "ProductionSelfReference"}

ValidatorRejected == pc = "raised" /\ err.kind \in ValidatorErrors

\* The Validator has judged the batch of the file being processed.
Validated == "validate" \in Range(steps)

\* C1: when the Validator rejects a file's batch, every database is as it was
\* when the file's processing began: none deleted, none written.
C1_RejectedBatchLeavesDatabases ==
    ValidatorRejected => databases = snap

\* A production exchange whose reference is not its dataset's (database, code).
ProductionOffIdentity(act, exc) ==
    /\ exc.isdict
    /\ PyEq(Get(exc.type), T_PRODUCTION)
    /\ Has(exc.input)
    /\ ~(/\ IsTuple2(exc.input)
         /\ PyEq(exc.input.v[1], Get(act.database))
         /\ PyEq(exc.input.v[2], Get(act.code)))

\* C2: a batch with a production exchange whose reference differs from its
\* dataset's identity does not pass the Validator, whatever the dataset's
\* fields are.
C2_ProductionOffIdentityRejected ==
    (Validated /\ \E p \in Positions(data) : ProductionOffIdentity(data[p[1]], ExchangeAt(data, p)))
        => pc = "raised"

\* An amount that is no finite number: NaN, an infinity, a bool, a value of
\* another type.
NotFiniteNumber(x) ==
    ~(x.t \in {"int", "float"} /\ x.v \notin {<<"nan">>, <<"inf">>, <<"-inf">>})

\* C3: a batch with an exchange whose amount is not a finite number does not
\* pass the Validator.
C3_NonFiniteAmountRejected ==
    (Validated /\ \E p \in Positions(data) :
        /\ ExchangeAt(data, p).isdict
        /\ Has(ExchangeAt(data, p).amount)
        /\ NotFiniteNumber(ExchangeAt(data, p).amount))
        => pc = "raised"

\* A biosphere exchange with a string name and unit that carries no reference.
UnlinkedBiosphere(exc) ==
    /\ exc.isdict
    /\ PyEq(Get(exc.type), T_BIOSPHERE)
    /\ ~Has(exc.input)
    /\ IsStr(Get(exc.name)) /\ IsStr(Get(exc.unit))

\* C4: with the synthetic fallback disabled, a biosphere exchange the loop has
\* handled and left without reference made it raise the unresolved-reference
\* error at that exchange; and once that error is raised the run has stopped
\* before the overwrite step, the Validator and the write, with every
\* database as it was when the file's processing began.
C4_UnresolvedBiosphereAborts ==
    /\ ~cfg.allow_create_missing_biosphere_flows =>
          \A i \in 1..Len(trace) :
              UnlinkedBiosphere(ExchangeAt(data, trace[i].at)) =>
                  /\ pc = "raised"
                  /\ err = [kind |-> "UnresolvedReference", at |-> trace[i].at]
                  /\ i = Len(trace)
    /\ err.kind = "UnresolvedReference" =>
          /\ pc = "raised"
          /\ ~cfg.allow_create_missing_biosphere_flows
          /\ steps = <<"tech">>
          /\ databases = snap

\* The unresolved-reference error is raised for a file naming database m1
\* while m1 exists and the overwrite flag is set.
C4_Witness ==
    /\ err.kind = "UnresolvedReference"
    /\ pc = "raised"
    /\ cfg.overwrite_metal_databases
    /\ M1 \in DOMAIN databases
    /\ M1 \in DatabasesInImporter(data)
    /\ UnlinkedBiosphere(ExchangeAt(data, err.at))

-----------------------------------------------------------------------------
(* Properties of the resolvers (SpecResolve)                               *)

\* The flows of the biosphere database that enter the indices.
IndexedFlows == SelectSeq(ActivitiesOf(databases, BIOSPHERE_DB), FlowIndexed)

\* Two distinct flows of the biosphere database have the normalized key of
\* the flow with this code.
SharedFlowKey(code) ==
    \E i, j \in 1..Len(IndexedFlows) :
        /\ i # j
        /\ IndexedFlows[i].code.v = code
        /\ FlowKey(IndexedFlows[i]) = FlowKey(IndexedFlows[j])

ProcessKey(act) == <<act.name.v, act.refprod.v, act.location.v>>

\* Two distinct activities of the ecoinvent database have the (name,
\* reference product, location) of the activity with this code.
SharedProcessKey(code) ==
    LET acts == ActivitiesOf(databases, ACTUAL_EI)
    IN \E i, j \in 1..Len(acts) :
        /\ i # j
        /\ acts[i].code.v = code
        /\ ProcessKey(acts[i]) = ProcessKey(acts[j])

\* The exchange as the file gave it, before the resolvers.
Original(p) == ExchangeAt(folder[file_no], p)

\* C5: no exchange is resolved to one of two distinct reference entities that
\* share its key: neither a biosphere exchange by the stages A to C, nor a
\* technosphere exchange by the process index.
C5_NeverPicksAmongEqualMatches ==
    /\ \A i \in 1..Len(trace) :
          trace[i].stage \in {"A", "B", "C"} => ~SharedFlowKey(trace[i].hit[2])
    /\ pc # "tech" =>
          \A p \in Positions(data) :
              (/\ PyEq(Get(ExchangeAt(data, p).type), T_TECHNOSPHERE)
               /\ ~Has(Original(p).input)
               /\ Has(ExchangeAt(data, p).input))
                  => ~SharedProcessKey(ExchangeAt(data, p).input.v[2].v)

\* The name stage C looks up: the override of the normalized name, the name
\* itself without one.
MappedName(exc) ==
    IF Norm(exc.name.v) \in DOMAIN name_map THEN name_map[Norm(exc.name.v)] ELSE exc.name.v

\* The flows of the biosphere database with this normalized name and unit.
FlowsNamed(name_n, unit_n) ==
    {i \in 1..Len(IndexedFlows) :
        Norm(IndexedFlows[i].name.v) = name_n /\ Norm(IndexedFlows[i].unit.v) = unit_n}

\* A biosphere exchange without category that stages A and B did not link,
\* while two or more flows have its substituted name and its unit.
AmbiguousWithoutCategory(i) ==
    LET exc == Original(trace[i].at)
    IN /\ trace[i].stage \notin {"skip", "A", "B"}
       /\ CatsT(Get(exc.categories)) = <<>>
       /\ Cardinality(FlowsNamed(Norm(MappedName(exc)), Norm(exc.unit.v))) >= 2

\* C6: a biosphere exchange without category that stages A and B did not
\* link, and for whose name two or more flows have its unit, is not linked by
\* stage C: it goes on to stage D or E, and no flow of the biosphere database
\* is its reference.
C6_AmbiguousNameStaysUnresolved ==
    \A i \in 1..Len(trace) :
        AmbiguousWithoutCategory(i) =>
            /\ trace[i].stage \in {"D", "E"}
            /\ ~(/\ Has(ExchangeAt(data, trace[i].at).input)
                 /\ ExchangeAt(data, trace[i].at).input.v[1].v = BIOSPHERE_DB)

\* Such an exchange was handled, with two flows that differ in the top-level
\* compartment alone.
C6_Witness ==
    \E i \in 1..Len(trace) :
        /\ AmbiguousWithoutCategory(i)
        /\ \E j, k \in FlowsNamed(Norm(MappedName(Original(trace[i].at))),
                                  Norm(Original(trace[i].at).unit.v)) :
              /\ IndexedFlows[j].categories.v = StrTuple(<<AIR>>).v
              /\ IndexedFlows[k].categories.v = StrTuple(<<WATER>>).v

\* The normalized (name, categories, unit) of a biosphere exchange.
ExchangeKey(exc) == <<Norm(exc.name.v), CatsT(Get(exc.categories)), Norm(exc.unit.v)>>

\* C8: two biosphere exchanges that stage D resolved and whose names,
\* categories and units are equal after _norm have the same synthetic
\* identifier.
C8_SyntheticIdOfNormalizedTriple ==
    \A i, j \in 1..Len(trace) :
        (/\ trace[i].stage = "D" /\ trace[j].stage = "D"
         /\ ExchangeKey(Original(trace[i].at)) = ExchangeKey(Original(trace[j].at)))
            => trace[i].hit = trace[j].hit

\* The orders of iteration of a database.
IterationOrders(acts) ==
    {Pick(acts, q) : q \in {x \in [1..Len(acts) -> 1..Len(acts)] : NoRepeat(x)}}

UniqueFlowKeys ==
    \A i, j \in 1..Len(IndexedFlows) :
        FlowKey(IndexedFlows[i]) = FlowKey(IndexedFlows[j]) => i = j

\* The stage A lookup of an exchange in an exact index: the hit, NoHit without.
ExactMatch(eidx, exc) ==
    IF ExchangeKey(exc) \in DOMAIN eidx THEN eidx[ExchangeKey(exc)] ELSE NoHit

\* C9: when every flow has its own normalized (name, categories, unit), the
\* stage A result of every exchange the loop handled, hit or no hit, is the
\* one the exact index built in any other iteration order gives.
C9_ExactMatchOrderIndependent ==
    (pc = "overwrite" /\ UniqueFlowKeys) =>
        \A flows \in IterationOrders(ActivitiesOf(databases, BIOSPHERE_DB)) :
            \A i \in 1..Len(trace) :
                trace[i].stage # "skip" =>
                    LET other == ExactMatch(BuildBiosphereExactIndex(BIOSPHERE_DB, flows),
                                            Original(trace[i].at))
                    IN /\ trace[i].stage = "A" => other = trace[i].hit
                       /\ trace[i].stage # "A" => other = NoHit

\* The loop ended over three flows with keys of their own, one exchange
\* linked by stage A and one that stage A missed.
C9_Witness ==
    /\ pc = "overwrite"
    /\ UniqueFlowKeys
    /\ Len(IndexedFlows) = 3
    /\ \E i, j \in 1..Len(trace) :
          trace[i].stage = "A" /\ trace[j].stage \in {"B", "C", "D"}

-----------------------------------------------------------------------------
(* Properties of the custom flow store (SpecStore)                         *)

\* C7: calls with the same (name, categories, unit) return the same key, the
\* store holds one flow for each distinct triple asked for, and a call for a
\* triple asked for before leaves the store as it was.
C7_GetOrCreateIdempotent ==
    /\ \A i, j \in 1..Len(calls) :
          calls[i].triple = calls[j].triple => calls[i].key = calls[j].key
    /\ Len(ActivitiesOf(databases, CUSTOM_DB)) = Cardinality({calls[i].triple : i \in 1..Len(calls)})
    /\ \A j \in 1..Len(calls) :
          (\E i \in 1..(j - 1) : calls[i].triple = calls[j].triple)
              => calls[j].after = calls[j].before

-----------------------------------------------------------------------------
(* SpecNorm: _norm on every short string and on its respellings            *)

NormMaxLen == 3
NormAlphabet == {"a", "A", " ", "\t"}

RECURSIVE StringsUpTo(_, _)
StringsUpTo(alphabet, n) ==
    IF n = 0 THEN {<<>>}
    ELSE LET shorter == StringsUpTo(alphabet, n - 1)
         IN shorter \cup {Append(s, c) : s \in {x \in shorter : Len(x) = n - 1}, c \in alphabet}

InsertAt(s, i, c) == SubSeq(s, 1, i - 1) \o <<c>> \o SubSeq(s, i, Len(s))
RemoveAt(s, i) == SubSeq(s, 1, i - 1) \o SubSeq(s, i + 1, Len(s))

\* Values of the variables of run, which _norm does not touch.
RunIdle ==
    /\ cfg = [overwrite_metal_databases |-> FALSE, allow_create_missing_biosphere_flows |-> FALSE]
    /\ databases = EmptyDict
    /\ folder = <<>>
    /\ mapping_file = MappingFiles[1]
    /\ name_map = EmptyDict
    /\ data = <<>>
    /\ pc = "idle"
    /\ file_no = 0
    /\ pos = <<0, 0>>
    /\ exact_idx = EmptyDict
    /\ name_idx = EmptyDict
    /\ fixed = 0
    /\ err = NoError
    /\ snap = EmptyDict
    /\ steps = <<>>
    /\ trace = <<>>
    /\ calls = <<>>
    /\ builds = EmptyDict
    /\ callers = <<>>

NormInit ==
    /\ ns \in StringsUpTo(NormAlphabet, NormMaxLen)
    /\ nt = ns
    /\ RunIdle

\* Respell one letter in the other case.
ChangeCase ==
    /\ \E i \in 1..Len(nt) :
          /\ SwapCase(nt[i]) # nt[i]
          /\ nt' = [nt EXCEPT ![i] = SwapCase(nt[i])]
    /\ UNCHANGED <<ns, runVars>>

\* Add one whitespace character in front or at the end.
PadOuter ==
    /\ Len(nt) < NormMaxLen + 2
    /\ \E c \in Whitespace : nt' = <<c>> \o nt \/ nt' = Append(nt, c)
    /\ UNCHANGED <<ns, runVars>>

\* Remove one whitespace character from the front or the end.
TrimOuter ==
    /\ nt # <<>>
    /\ \/ IsSpace(Head(nt)) /\ nt' = Tail(nt)
       \/ IsSpace(nt[Len(nt)]) /\ nt' = SubSeq(nt, 1, Len(nt) - 1)
    /\ UNCHANGED <<ns, runVars>>

\* Lengthen a whitespace run by one character.
StretchRun ==
    /\ Len(nt) < NormMaxLen + 2
    /\ \E i \in 1..Len(nt), c \in Whitespace :
          /\ IsSpace(nt[i])
          /\ nt' = InsertAt(nt, i, c)
    /\ UNCHANGED <<ns, runVars>>

\* Shorten a whitespace run of two or more characters by one.
ShrinkRun ==
    /\ \E i \in 1..(Len(nt) - 1) :
          /\ IsSpace(nt[i]) /\ IsSpace(nt[i + 1])
          /\ nt' = RemoveAt(nt, i)
    /\ UNCHANGED <<ns, runVars>>

NormNext == ChangeCase \/ PadOuter \/ TrimOuter \/ StretchRun \/ ShrinkRun

SpecNorm == NormInit /\ [][NormNext]_vars

\* The shape of a normalized string.
NoOuterSpace(s) == s = <<>> \/ (~IsSpace(Head(s)) /\ ~IsSpace(s[Len(s)]))
NoUpper(s) == \A i \in 1..Len(s) : ~IsUpper(s[i])
NoSpaceRun(s) == \A i \in 1..(Len(s) - 1) : ~(IsSpace(s[i]) /\ IsSpace(s[i + 1]))

\* C10: _norm is idempotent, gives one form to all strings that differ only in
\* letter case, outer whitespace or the length of inner whitespace runs, and
\* that form has no outer whitespace, no uppercase letter and no whitespace run.
C10_NormIdempotentInsensitive ==
    /\ Norm(Norm(nt)) = Norm(nt)
    /\ Norm(nt) = Norm(ns)
    /\ NoOuterSpace(Norm(nt))
    /\ NoUpper(Norm(nt))
    /\ NoSpaceRun(Norm(nt))

\* A respelling that differs from the original in case, in outer whitespace and
\* in an inner run at once, with two words in it.
C10_Witness ==
    /\ nt # ns
    /\ Len(Split(nt)) = 2
    /\ \E i \in 1..Len(nt) : IsUpper(nt[i])
    /\ IsSpace(Head(nt))
    /\ \E i \in 1..(Len(nt) - 1) : IsSpace(nt[i]) /\ IsSpace(nt[i + 1]) /\ i > 1
    /\ Norm(nt) = <<"a", " ", "a">>

-----------------------------------------------------------------------------
(* Further properties of run and _process_excel (Spec)                     *)

\* A technosphere exchange without reference whose four lookup fields are
\* non-empty strings and whose database is none of the project's.
UnavailableTechnosphere(exc) ==
    /\ exc.isdict
    /\ PyEq(Get(exc.type), T_TECHNOSPHERE)
    /\ ~Has(exc.input)
    /\ \A f \in {exc.database, exc.name, exc.refprod, exc.location} : IsNonEmptyStr(Get(f))
    /\ exc.database.v \notin DOMAIN snap

\* The exchange as the technosphere lookup meets it: the file's exchange after
\* the rewrite of the background label.
Prepared(p) == ExchangeAt(NormalizeAndRewrite(folder[file_no], EXCEL_BG, ACTUAL_EI), p)

\* C11: a technosphere exchange whose database is not available stays
\* without reference and is never the exchange an error is raised at.
C11_UnavailableTechnosphereIsBenign ==
    \A p \in Positions(data) :
        UnavailableTechnosphere(Prepared(p)) =>
            /\ ~Has(ExchangeAt(data, p).input)
            /\ ~(pc = "raised" /\ err.at = p)

\* C12: when _fill_missing_biosphere_inputs has returned, every biosphere
\* exchange of the file carries a reference, whatever its name, categories
\* and unit are.
C12_BiosphereResolvedOnReturn ==
    "bio" \in Range(steps) =>
        \A p \in Positions(data) :
            (ExchangeAt(data, p).isdict /\ PyEq(Get(ExchangeAt(data, p).type), T_BIOSPHERE))
                => Has(ExchangeAt(data, p).input)

\* The steps of _process_excel in the order of the code.
StepOrder == <<"tech", "bio", "overwrite", "validate", "write">>

\* C13: the steps done for a file are a prefix of technosphere lookup,
\* biosphere lookup, overwrite, validation, write, so that validation runs
\* once and after both lookups; a file is written only when the Validator
\* accepts its batch as it stands, and a rejected batch is not written.
C13_PhasesInOrder ==
    /\ Len(steps) <= Len(StepOrder)
    /\ steps = SubSeq(StepOrder, 1, Len(steps))
    /\ (pc = "write" \/ "write" \in Range(steps)) =>
          \A p \in Positions(data) : ValidateExchange(data[p[1]], ExchangeAt(data, p)) = "ok"
    /\ ValidatorRejected =>
          /\ steps = SubSeq(StepOrder, 1, 4)
          /\ \A l \in DatabasesInImporter(data) \cap DOMAIN databases :
                l \in DOMAIN snap /\ databases[l] = snap[l]

\* A file of two exchanges was written after both lookups linked one each.
C13_Witness ==
    /\ steps = StepOrder
    /\ fixed = 1
    /\ \E p \in Positions(data) :
          /\ PyEq(Get(ExchangeAt(data, p).type), T_TECHNOSPHERE)
          /\ ~Has(Original(p).input)

\* The labels of the databases the earlier files of this run wrote; snap holds
\* their contents as the last of these files left them.
CommittedEarlier == UNION {DatabasesInImporter(folder[i]) : i \in 1..(file_no - 1)}

\* C14: when an error ends the run at a file, every database an earlier file
\* of the run wrote is still there with the contents written.
C14_EarlierCommitsSurviveFailure ==
    pc = "raised" =>
        \A l \in CommittedEarlier : l \in DOMAIN databases /\ databases[l] = snap[l]

\* C15: when an error ends the run at a file, the custom biosphere database
\* holds the flows it held when the file's processing began.
C15_AbortedFileCreatesNoFlow ==
    (pc = "raised" /\ file_no >= 1) =>
        ActivitiesOf(databases, CUSTOM_DB) = ActivitiesOf(snap, CUSTOM_DB)

-----------------------------------------------------------------------------
(* SpecConcurrent: _get_or_create_custom_biosphere_flow called by several  *)
(* callers at once on one project; db.load() and db.write() are the steps  *)

MaxCallers == 2

\* The flows asked for: no two of them have the same code.
ConcurrentTriples ==
    {<<name, cats, KG>> : name \in {<<"a">>, <<"b">>}, cats \in {<<>>, <<AIR>>}}

\* A call that has not started: its arguments, the statement it is at, its
\* local variable existing.
NewCaller(triple) == [triple |-> triple, at |-> "ensure", existing |-> <<>>]

ConcurrentInit ==
    /\ NormIdle
    /\ cfg = [overwrite_metal_databases |-> TRUE, allow_create_missing_biosphere_flows |-> TRUE]
    /\ databases \in {BaseDatabases(<<>>, <<>>), [k \in {BIOSPHERE_DB} |-> <<>>]}
    /\ folder = <<>>
    /\ mapping_file = MappingFiles[1]
    /\ name_map = EmptyDict
    /\ data = <<>>
    /\ pc = "concurrent"
    /\ file_no = 0
    /\ pos = <<0, 0>>
    /\ exact_idx = EmptyDict
    /\ name_idx = EmptyDict
    /\ fixed = 0
    /\ err = NoError
    /\ snap = databases
    /\ steps = <<>>
    /\ trace = <<>>
    /\ calls = <<>>
    /\ builds = EmptyDict
    /\ callers \in {[i \in 1..MaxCallers |-> NewCaller(q[i])] :
                        q \in [1..MaxCallers -> ConcurrentTriples]}

\* What a call leaves alone: everything but the databases and the calls.
callFrame == <<ns, nt, cfg, folder, mapping_file, name_map, data, pc, file_no, pos,
               exact_idx, name_idx, fixed, err, snap, steps, trace, calls, builds>>

\* _ensure_custom_biosphere_db(db_name)
CallerEnsure(i) ==
    /\ callers[i].at = "ensure"
    /\ UNCHANGED callFrame
    /\ databases' = EnsureCustomBiosphereDb(databases, CUSTOM_DB)
    /\ callers' = [callers EXCEPT ![i].at = "load"]

\* existing = db.load(); if key in existing: return key
CallerLoad(i) ==
    LET t == callers[i].triple
        existing == ActivitiesOf(databases, CUSTOM_DB)
    IN /\ callers[i].at = "load"
       /\ callers' = [callers EXCEPT ![i].existing = existing,
                                     ![i].at = IF InDatabase(existing, CustomFlowCode(t[1], t[2], t[3]))
                                               THEN "returned" ELSE "write"]
       /\ databases' = databases
       /\ UNCHANGED callFrame

\* existing[key] = {...}; db.write(existing); return key
CallerWrite(i) ==
    LET t == callers[i].triple
        flow == Activity(Str(CUSTOM_DB), Str(CustomFlowCode(t[1], t[2], t[3])), Str(t[1]),
                         Absent, Absent, StrTuple(t[2]), Str(t[3]), Str(<<"emission">>),
                         Absent, <<>>)
    IN /\ callers[i].at = "write"
       /\ databases' = DictSet(databases, CUSTOM_DB, Append(callers[i].existing, flow))
       /\ callers' = [callers EXCEPT ![i].at = "returned"]
       /\ UNCHANGED callFrame

ConcurrentNext ==
    \E i \in 1..MaxCallers : CallerEnsure(i) \/ CallerLoad(i) \/ CallerWrite(i)

SpecConcurrent == ConcurrentInit /\ [][ConcurrentNext]_vars

\* The flows of the custom biosphere database with this name, categories and
\* unit.
StoredAs(triple) ==
    LET store == ActivitiesOf(databases, CUSTOM_DB)
    IN {j \in 1..Len(store) :
          /\ store[j].name.v = triple[1]
          /\ store[j].categories = StrTuple(triple[2])
          /\ store[j].unit.v = triple[3]}

\* C16: when every concurrent call has returned, the custom biosphere
\* database holds one flow for each triple asked for and no other.
C16_ConcurrentCallsKeepEveryFlow ==
    (\A i \in 1..Len(callers) : callers[i].at = "returned") =>
        /\ \A i \in 1..Len(callers) : Cardinality(StoredAs(callers[i].triple)) = 1
        /\ Len(ActivitiesOf(databases, CUSTOM_DB))
              = Cardinality({callers[i].triple : i \in 1..Len(callers)})

-----------------------------------------------------------------------------
(* Properties of the indices and of the mapping fix file (Spec)            *)

\* C17: in one run no index is built a second time, and while the biosphere
\* loop runs the two biosphere indices are the ones built when it began.
C17_IndexBuiltOncePerRun ==
    /\ \A k \in DOMAIN builds : builds[k] <= 1
    /\ pc = "bio_loop" =>
          /\ exact_idx = BuildBiosphereExactIndex(BIOSPHERE_DB, ActivitiesOf(snap, BIOSPHERE_DB))
          /\ name_idx = BuildBiosphereNameIndex(BIOSPHERE_DB, ActivitiesOf(snap, BIOSPHERE_DB))

\* The columns of the mapping fix file whose header is the label, case and
\* outer whitespace aside.
ColumnsLabelled(label) ==
    {i \in 1..Len(mapping_file.columns) : LowerStr(Strip(mapping_file.columns[i])) = label}

\* The mapping fix file exists and has both columns.
UsableMappingFile ==
    /\ mapping_file.exists
    /\ ColumnsLabelled(COL_ERROR) # {}
    /\ ColumnsLabelled(COL_TO_REPLACE) # {}

\* A cell that is a string with something else than whitespace in it.
FilledCell(x) == IsStr(x) /\ \E i \in 1..Len(x.v) : ~IsSpace(x.v[i])

\* The rows of the mapping fix file with a filled cell in both columns, as
\* pairs <<Error, To replace>>.
ContributingRows ==
    LET ce == CHOOSE i \in ColumnsLabelled(COL_ERROR) : TRUE
        ct == CHOOSE i \in ColumnsLabelled(COL_TO_REPLACE) : TRUE
    IN {<<mapping_file.rows[r][ce].v, mapping_file.rows[r][ct].v>> :
          r \in {x \in 1..Len(mapping_file.rows) :
                    FilledCell(mapping_file.rows[x][ce]) /\ FilledCell(mapping_file.rows[x][ct])}}

\* C18: no file is processed before the mapping is loaded; with the mapping
\* fix file missing or without one of the two columns the run ends before any
\* file is read; otherwise the mapping is, from the load to the end of the
\* run, the one of the rows with both cells filled and of no other row.
C18_MappingLoadedBeforeResolution ==
    /\ pc = "load_mapping" => (file_no = 0 /\ name_map = EmptyDict /\ data = <<>>)
    /\ (pc # "load_mapping" /\ ~UsableMappingFile) =>
          /\ pc = "raised"
          /\ err.kind \in {"MappingFileNotFound", "MappingFileFormat"}
          /\ file_no = 0 /\ data = <<>> /\ steps = <<>> /\ trace = <<>>
          /\ databases = snap
    /\ (pc # "load_mapping" /\ UsableMappingFile) =>
          /\ DOMAIN name_map = {Norm(row[1]) : row \in ContributingRows}
          /\ \A row \in ContributingRows : name_map[Norm(row[1])] = Strip(row[2])

\* A file is being processed under a mapping loaded from a file of which some
\* row was skipped.
C18_Witness ==
    /\ file_no >= 1
    /\ UsableMappingFile
    /\ name_map # EmptyDict
    /\ Cardinality(ContributingRows) < Len(mapping_file.rows)

-----------------------------------------------------------------------------
(* Properties of the Validator (Spec)                                      *)

\* An amount that is a number and not NaN.
NumericNotNaN(x) == x.t \in {"int", "float"} /\ x.v # <<"nan">>

\* An exchange as the Validator is to accept it: a record with type, amount
\* and reference, one of the three types, a numeric amount that is not NaN, a
\* reference of two non-empty strings, and for a production exchange the
\* reference of its own dataset.
WellFormedExchange(act, exc) ==
    /\ exc.isdict
    /\ Has(exc.type) /\ Has(exc.amount) /\ Has(exc.input)
    /\ \E t \in {T_PRODUCTION, T_TECHNOSPHERE, T_BIOSPHERE} : PyEq(exc.type, t)
    /\ NumericNotNaN(exc.amount)
    /\ exc.input.t = "tuple" /\ Len(exc.input.v) = 2
    /\ \A i \in 1..2 : exc.input.v[i].t = "str" /\ exc.input.v[i].v # <<>>
    /\ PyEq(exc.type, T_PRODUCTION) =>
          (PyEq(exc.input.v[1], Get(act.database)) /\ PyEq(exc.input.v[2], Get(act.code)))

\* C19: the Validator accepts the batch exactly when every exchange of every
\* dataset is well formed; a batch with an exchange that is not is rejected
\* and not written.
C19_ValidatorAcceptsIffWellFormed ==
    Validated =>
        /\ (pc # "raised") <=>
              \A p \in Positions(data) : WellFormedExchange(data[p[1]], ExchangeAt(data, p))
        /\ pc = "raised" => (ValidatorRejected /\ "write" \notin Range(steps))

-----------------------------------------------------------------------------
(* The messages of the errors (Spec)                                       *)

\* The values the message of a raised error is formatted from: ctx and the
\* exchange for the ValueErrors of _validate_importer_payload; the name, the
\* mapped name, the categories and the unit for the ValueError of
\* _fill_missing_biosphere_inputs.
ErrorMessage(e, d, nmap) ==
    LET act == d[e.at[1]]
        exc == act.exchanges[e.at[2]]
    IN IF e.kind = "UnresolvedReference"
       THEN [name |-> Get(exc.name),
             mapped_to |-> IF Norm(exc.name.v) \in DOMAIN nmap
                           THEN Str(nmap[Norm(exc.name.v)]) ELSE Get(exc.name),
             categories |-> Get(exc.categories),
             unit |-> Get(exc.unit)]
       ELSE [activity |-> <<Get(act.database), Get(act.code)>>, exchange |-> exc]

\* C20: the message of every error of the two lookups and of the Validator
\* carries the database and code of the dataset of the exchange it was raised
\* at; the message of the unresolved-reference error carries the name, the
\* mapped name, the categories and the unit besides.
C20_ErrorNamesDataset ==
    (pc = "raised" /\ err.kind \in ValidatorErrors \cup {"UnresolvedReference"}) =>
        LET msg == ErrorMessage(err, data, name_map)
        IN /\ "activity" \in DOMAIN msg
           /\ msg.activity = <<Get(data[err.at[1]].database), Get(data[err.at[1]].code)>>
           /\ err.kind = "UnresolvedReference" =>
                 {"name", "mapped_to", "categories", "unit"} \subseteq DOMAIN msg

-----------------------------------------------------------------------------
(* Properties of the stages of the biosphere lookup (SpecResolve)          *)

\* The name-only candidates of an exchange: the flows of the biosphere
\* database that have its substituted name, by their place in IndexedFlows.
NameCandidates(exc) ==
    {j \in 1..Len(IndexedFlows) : Norm(IndexedFlows[j].name.v) = Norm(MappedName(exc))}

\* The candidates left by the unit filter: those of the exchange's unit, all
\* of them when none has it.
UnitFiltered(exc) ==
    LET same == {j \in NameCandidates(exc) : Norm(IndexedFlows[j].unit.v) = Norm(exc.unit.v)}
    IN IF same # {} THEN same ELSE NameCandidates(exc)

FirstCategory(j) == CatsT(Get(IndexedFlows[j].categories))[1]

\* The unit-filtered candidates whose first category is the top-level
\* category of the exchange.
TopMatched(exc) ==
    {j \in UnitFiltered(exc) :
        /\ CatsT(Get(IndexedFlows[j].categories)) # <<>>
        /\ FirstCategory(j) = CatsT(Get(exc.categories))[1]}

FlowRef(j) == <<BIOSPHERE_DB, IndexedFlows[j].code.v>>

\* The selection of stage C as the rule gives it, NoHit for none.
StageCRule(exc) ==
    LET supplied == CatsT(Get(exc.categories)) # <<>>
        refs(js) == {FlowRef(j) : j \in js}
    IN IF supplied /\ Cardinality(refs(TopMatched(exc))) = 1
       THEN CHOOSE r \in refs(TopMatched(exc)) : TRUE
       ELSE IF supplied /\ Cardinality(refs(TopMatched(exc))) > 1
       THEN NoHit
       ELSE IF Cardinality(refs(UnitFiltered(exc))) = 1
       THEN CHOOSE r \in refs(UnitFiltered(exc)) : TRUE
       ELSE NoHit

\* C21: for every exchange that reached stage C, the flow stage C linked it
\* to is the one the rule selects, and stage C linked it to none exactly when
\* the rule selects none.
C21_StageCFollowsRule ==
    \A i \in 1..Len(trace) :
        /\ trace[i].stage = "C" => trace[i].hit = StageCRule(Original(trace[i].at))
        /\ trace[i].stage \in {"D", "E"} => StageCRule(Original(trace[i].at)) = NoHit

\* Stage C linked an exchange by its top-level category, two candidates
\* having its unit.
C21_Witness ==
    \E i \in 1..Len(trace) :
        /\ trace[i].stage = "C"
        /\ Cardinality(UnitFiltered(Original(trace[i].at))) >= 2
        /\ Cardinality(TopMatched(Original(trace[i].at))) = 1

\* The exact-index key stage B looks up: the substituted name with the
\* categories and unit of the exchange.
MappedKey(exc) == <<Norm(MappedName(exc)), CatsT(Get(exc.categories)), Norm(exc.unit.v)>>

\* C22: an exchange whose own key is in the exact index is linked by stage A
\* to that entry; one whose own key is not but whose mapped key is, by stage
\* B to that entry; stage C links only exchanges with neither key in the
\* index; stage D only those that stage C selected no flow for besides; and
\* the custom biosphere database grows by stage D alone.
C22_StagesInOrder ==
    /\ \A i \in 1..Len(trace) :
          trace[i].stage # "skip" =>
              LET exc == Original(trace[i].at)
                  inA == ExchangeKey(exc) \in DOMAIN exact_idx
                  inB == MappedKey(exc) \in DOMAIN exact_idx
              IN /\ inA => (trace[i].stage = "A" /\ trace[i].hit = exact_idx[ExchangeKey(exc)])
                 /\ (~inA /\ inB) => (trace[i].stage = "B" /\ trace[i].hit = exact_idx[MappedKey(exc)])
                 /\ trace[i].stage \in {"C", "D", "E"} => (~inA /\ ~inB)
                 /\ trace[i].stage \in {"D", "E"} => StageCRule(exc) = NoHit
    /\ Len(ActivitiesOf(databases, CUSTOM_DB)) - Len(ActivitiesOf(snap, CUSTOM_DB))
          <= Cardinality({i \in 1..Len(trace) : trace[i].stage = "D"})

\* One exchange of the file was linked by stage B through the mapping, and
\* another, which the three stages missed, by stage D.
C22_Witness ==
    \E i, j \in 1..Len(trace) :
        /\ trace[i].stage = "B"
        /\ MappedName(Original(trace[i].at)) # Original(trace[i].at).name.v
        /\ trace[j].stage = "D"

\* The name-only candidates whose first category is the top-level category
\* of the exchange.
HintedCandidates(exc) ==
    {j \in NameCandidates(exc) :
        /\ CatsT(Get(IndexedFlows[j].categories)) # <<>>
        /\ FirstCategory(j) = CatsT(Get(exc.categories))[1]}

\* C27: an exchange that supplies a top-level category which some name-only
\* candidate has as its first category is linked by stage C to a candidate
\* of that first category only.
C27_StageCRespectsCompartment ==
    \A i \in 1..Len(trace) :
        LET exc == Original(trace[i].at)
        IN (/\ trace[i].stage = "C"
            /\ CatsT(Get(exc.categories)) # <<>>
            /\ HintedCandidates(exc) # {})
               => trace[i].hit \in {FlowRef(j) : j \in HintedCandidates(exc)}

-----------------------------------------------------------------------------
(* Properties of the technosphere lookup (SpecResolve)                     *)

\* A technosphere exchange without reference.
UnlinkedTechnosphere(exc) ==
    /\ exc.isdict
    /\ PyEq(Get(exc.type), T_TECHNOSPHERE)
    /\ ~Has(exc.input)

\* Its four lookup fields are non-empty strings and its database is one of
\* the project's.
Lookable(exc) ==
    /\ \A f \in {exc.database, exc.name, exc.refprod, exc.location} : IsNonEmptyStr(Get(f))
    /\ exc.database.v \in DOMAIN snap

\* The process index of the database the exchange names.
ProcessIndexOf(exc) == BuildEcoinventIndex(exc.database.v, snap[exc.database.v])

\* C23: after _fill_missing_technosphere_inputs, which raises nothing, a
\* technosphere exchange that had no reference carries one exactly when its
\* four fields are non-empty strings, its database is available and its
\* (name, reference product, location) is a key of the process index of that
\* database; the reference is the entry of the index, and in every other
\* case the exchange is as it was.
C23_TechnosphereLinkedIffIndexed ==
    /\ pc = "bio" => err = NoError
    /\ pc = "raised" => ~PyEq(Get(ExchangeAt(data, err.at).type), T_TECHNOSPHERE)
    /\ pc # "tech" =>
          \A p \in Positions(data) :
              UnlinkedTechnosphere(Prepared(p)) =>
                  IF Lookable(Prepared(p)) /\ ProcessKey(Prepared(p)) \in DOMAIN ProcessIndexOf(Prepared(p))
                  THEN ExchangeAt(data, p) =
                          [Prepared(p) EXCEPT !.input =
                              Key(ProcessIndexOf(Prepared(p))[ProcessKey(Prepared(p))][1],
                                  ProcessIndexOf(Prepared(p))[ProcessKey(Prepared(p))][2])]
                  ELSE ExchangeAt(data, p) = Prepared(p)

\* The lookup has linked one exchange of the file and left two others as
\* they were: one whose key the index of its database has not, one whose
\* database the project has not.
C23_Witness ==
    /\ pc # "tech"
    /\ \E p, q \in Positions(data) :
          /\ UnlinkedTechnosphere(Prepared(p))
          /\ Has(ExchangeAt(data, p).input)
          /\ UnlinkedTechnosphere(Prepared(q))
          /\ ~Has(ExchangeAt(data, q).input)
          /\ \/ Lookable(Prepared(q))
             \/ Prepared(q).database.v \notin DOMAIN snap

\* An activity of the exchange's database has the name, reference product
\* and location of the exchange when letter case and whitespace are set
\* aside.
SameProcessNormalized(exc, act) ==
    /\ Norm(act.name.v) = Norm(exc.name.v)
    /\ Norm(act.refprod.v) = Norm(exc.refprod.v)
    /\ Norm(act.location.v) = Norm(exc.location.v)

\* C24: after _fill_missing_technosphere_inputs, a technosphere exchange
\* whose name, reference product and location equal those of an activity of
\* its database up to letter case and whitespace is linked to such an
\* activity.
C24_TechnosphereMatchNormalized ==
    pc # "tech" =>
        \A p \in Positions(data) :
            (/\ UnlinkedTechnosphere(Prepared(p))
             /\ Lookable(Prepared(p))
             /\ \E k \in 1..Len(snap[Prepared(p).database.v]) :
                    SameProcessNormalized(Prepared(p), snap[Prepared(p).database.v][k]))
                => /\ Has(ExchangeAt(data, p).input)
                   /\ \E k \in 1..Len(snap[Prepared(p).database.v]) :
                          /\ SameProcessNormalized(Prepared(p), snap[Prepared(p).database.v][k])
                          /\ ExchangeAt(data, p).input =
                                Key(Prepared(p).database.v, snap[Prepared(p).database.v][k].code.v)

-----------------------------------------------------------------------------
(* What the two lookups leave alone (Spec)                                 *)

\* The file as the lookups meet it.
PreparedData == NormalizeAndRewrite(folder[file_no], EXCEL_BG, ACTUAL_EI)

\* The exchanges of the given type that had no reference and carry one now.
NewlyLinked(type) ==
    {p \in Positions(data) :
        /\ Prepared(p).isdict
        /\ PyEq(Get(Prepared(p).type), type)
        /\ ~Has(Prepared(p).input)
        /\ Has(ExchangeAt(data, p).input)}

\* C26: from the return of _fill_missing_technosphere_inputs to the return
\* of _fill_missing_biosphere_inputs the file differs from the file the
\* lookups met in nothing but the reference of exchanges that had none: the
\* fields of the datasets, the exchanges with a reference, the production
\* exchanges and every field of an exchange other than the reference are
\* the same; and the count a lookup returns is the number of exchanges it
\* gave a reference to.
C26_LookupsChangeReferenceOnly ==
    pc \in {"bio", "bio_loop", "overwrite"} =>
        /\ Len(data) = Len(PreparedData)
        /\ \A a \in 1..Len(data) :
              /\ [data[a] EXCEPT !.exchanges = <<>>] = [PreparedData[a] EXCEPT !.exchanges = <<>>]
              /\ Len(data[a].exchanges) = Len(PreparedData[a].exchanges)
        /\ \A p \in Positions(data) :
              /\ [ExchangeAt(data, p) EXCEPT !.input = Prepared(p).input] = Prepared(p)
              /\ Has(Prepared(p).input) => ExchangeAt(data, p) = Prepared(p)
              /\ ~Prepared(p).isdict => ExchangeAt(data, p) = Prepared(p)
              /\ PyEq(Get(Prepared(p).type), T_PRODUCTION) => ExchangeAt(data, p) = Prepared(p)
        /\ pc = "bio" => fixed = Cardinality(NewlyLinked(T_TECHNOSPHERE))
        /\ pc = "overwrite" => fixed = Cardinality(NewlyLinked(T_BIOSPHERE))

\* Both lookups have returned on a file of two exchanges, each of them
\* having given a reference to one, the biosphere lookup counting its own.
C26_Witness ==
    /\ pc = "overwrite"
    /\ fixed = 1
    /\ Cardinality(NewlyLinked(T_TECHNOSPHERE)) = 1
    /\ Cardinality(NewlyLinked(T_BIOSPHERE)) = 1

-----------------------------------------------------------------------------
(* The lookups on a file of several datasets (SpecOrder)                   *)

MaxDatasets == 2

\* Exchanges without reference: two that stage D gives one code, "a|()" in
\* "kg" and "a" in "()|kg", one that stage D creates a flow for, one that
\* stage A links, and a technosphere exchange.
OrderPool == <<
    BioExchange(Str(<<"a", "|", "(", ")">>), None_, Str(KG)),
    BioExchange(Str(<<"a">>), None_, Str(<<"(", ")", "|", "k", "g">>)),
    BioExchange(Str(<<"X", "a">>), StrTuple(<<SOIL>>), Str(KG)),
    BioExchange(Str(<<"C", "o">>), StrTuple(<<AIR>>), Str(KG)),
    TechExchange(EXCEL_BG) >>

\* The files of 1..MaxDatasets datasets of m1, each of 1..MaxExchanges
\* exchanges of the pool.
OrderFiles ==
    LET lists == {Pick(OrderPool, q) : q \in SeqsUpTo(Len(OrderPool), MaxExchanges) \ {<<>>}}
        codes == <<Str(P1), Str(P2)>>
    IN UNION {{[a \in 1..n |-> Dataset(codes[a], f[a])] : f \in [1..n -> lists]} :
                n \in 1..MaxDatasets}

OrderInit ==
    /\ NormIdle
    /\ cfg \in [overwrite_metal_databases : {TRUE},
                allow_create_missing_biosphere_flows : BOOLEAN]
    /\ databases = BaseDatabases(<<FlowPool[1]>>, ProcessPool)
    /\ mapping_file = MappingFiles[3]
    /\ name_map = LoadBiosphereMappingFix(mapping_file).map
    /\ \E f \in OrderFiles : folder = <<f>>
    /\ data = NormalizeAndRewrite(folder[1], EXCEL_BG, ACTUAL_EI)
    /\ pc = "tech"
    /\ file_no = 1
    /\ pos = <<0, 0>>
    /\ exact_idx = EmptyDict
    /\ name_idx = EmptyDict
    /\ fixed = 0
    /\ err = NoError
    /\ snap = databases
    /\ steps = <<>>
    /\ trace = <<>>
    /\ calls = <<>>
    /\ builds = EmptyDict
    /\ callers = <<>>

OrderNext == FillTech \/ FillBioBegin \/ FillBioStep \/ FillBioReturn

SpecOrder == OrderInit /\ [][OrderNext]_vars

\* The orders of n things.
Orders(n) == {q \in SeqsUpTo(n, n) : Len(q) = n /\ NoRepeat(q)}

\* An order of the datasets of the file and, for each dataset, an order of
\* its exchanges.
Reorderings(d) ==
    {r \in [datasets : Orders(Len(d)),
            exchanges : [1..Len(d) -> UNION {Orders(k) : k \in 1..MaxExchanges}]] :
        \A a \in 1..Len(d) : Len(r.exchanges[a]) = Len(d[a].exchanges)}

\* The file with its datasets and their exchanges in the given order.
Reorder(d, r) ==
    [i \in 1..Len(d) |->
        LET a == r.datasets[i]
        IN [d[a] EXCEPT !.exchanges = [x \in 1..Len(d[a].exchanges) |->
                                          d[a].exchanges[r.exchanges[a][x]]]]]

\* The two lookups of _process_excel on a file, from the databases the file
\* was met with.
LookupsOn(file) ==
    LET tech == FillMissingTechnosphereInputs(NormalizeAndRewrite(file, EXCEL_BG, ACTUAL_EI), snap)
        bio == FillMissingBiosphereInputs(tech.data, snap, name_map,
                                          cfg.allow_create_missing_biosphere_flows)
    IN [data |-> bio.data, custom |-> Range(ActivitiesOf(bio.dbs, CUSTOM_DB)),
        n_tech |-> tech.fixed, n_bio |-> bio.fixed, raised |-> bio.raised]

\* C25: when both lookups have returned on a file, they return on the file
\* in every other order of its datasets and of their exchanges too, with
\* the same reference on every exchange, the same flows in the custom
\* biosphere database and the same counts.
C25_LookupsOrderIndependent ==
    pc = "overwrite" =>
        \A r \in Reorderings(folder[1]) :
            LET other == LookupsOn(Reorder(folder[1], r))
            IN /\ ~other.raised
               /\ other.data = Reorder(data, r)
               /\ other.custom = Range(ActivitiesOf(databases, CUSTOM_DB))
               /\ other.n_bio = fixed
               /\ other.n_tech = LookupsOn(folder[1]).n_tech
====
